---- MODULE Spec2Model ----
(***************************************************************************)
(* SyncPlay group-playback coordinator of jellyfin-web: session manager,   *)
(* command scheduler, drift corrector, time-sync registry, peer mesh and   *)
(* queue mirror, as one state machine.                                     *)
(*                                                                         *)
(* Time is the local clock in milliseconds.  A JavaScript macrotask (a     *)
(* server message, a timer callback, a player event) together with the     *)
(* promise continuations it releases is one step.  Timers fire when their  *)
(* deadline is reached: the clock does not advance past an armed timer.    *)
(***************************************************************************)
EXTENDS Integers, Sequences, FiniteSets, TLC

(***************************************************************************)
(* Bounds of the model.                                                    *)
(***************************************************************************)
MaxTime == 2000
TickMs == 1000
MaxWaiters == 1
MaxReadyWaiters == 2
MaxSyncAttempts == 2
MaxPending == 2

(***************************************************************************)
(* Program constants.                                                      *)
(***************************************************************************)
TicksPerMillisecond == 10000
WaitForEventDefaultTimeout == 30000
WaitForPlayerEventTimeout == 500
minDelaySpeedToSync == 60
maxDelaySpeedToSync == 3000
speedToSyncDuration == 1000
minDelaySkipToSync == 400
rangeWidth == 100
MinSpeedPerMille == 200
minBufferingThresholdMillis == 3000

(***************************************************************************)
(* Null values.  null dates and null ticks are -1, a null id is "null".    *)
(***************************************************************************)
NullTime == 0 - 1
NullTicks == 0 - 1
NullId == "null"
NoTimeout == 0 - 1
NoCommand == [Command |-> "None", When |-> NullTime, EmittedAt |-> NullTime,
              PositionTicks |-> NullTicks, PlaylistItemId |-> NullId]

VARIABLES
  now,                   \* local clock, ms
  effects,               \* calls made to the player, the server and the timer API by the last step
  \* SyncPlayManager
  groupInfo, syncPlayEnabledAt, syncPlayReady, queuedCommand,
  followingGroupPlayback, lastPlaybackCommand, readyWaiters,
  \* playbackManager as patched by SyncPlay
  pmSyncPlayEnabled, pmMethods, pmSaved,
  \* SyncPlayPlaybackCore
  lastCommand, timers, waiters, syncEnabled, syncAttempts, lastSyncTime,
  playerIsBuffering, useSpeedToSync, useSkipToSync, enableSyncCorrection,
  \* player wrapper and player
  isPlayerActive, paused, playerTicks, playbackRate,
  \* TimeSyncCore
  serverOffset, tsPeers, tsPeerIds, activePeerId, extraTimeOffset,
  \* requestSent of the 'ping-request' messages sent to each peer whose 'ping-response'
  \* has not arrived
  pingRequests,
  \* SyncPlayWebRTCCore and the data channels of its peer connections
  connections, connectionsArray, rtcPeerIds, rtcEnabled, dataChannels, links,
  \* SyncPlayQueueManager
  playlist, internalPlaylist, reason, lastUpdate, playingItemIndex,
  startPositionTicks, shuffleMode, repeatMode, pendingLookups,
  \* LastUpdate of the updates whose followGroupPlayback request is in flight; its
  \* completion starts playback
  pendingFollows

mgrVars == <<groupInfo, syncPlayEnabledAt, syncPlayReady, queuedCommand,
             followingGroupPlayback, lastPlaybackCommand, readyWaiters>>
pmVars == <<pmSyncPlayEnabled, pmMethods, pmSaved>>
settingsVars == <<useSpeedToSync, useSkipToSync, enableSyncCorrection>>
coreVars == <<lastCommand, timers, waiters, syncEnabled, syncAttempts, lastSyncTime,
              playerIsBuffering>>
playerVars == <<isPlayerActive, paused, playerTicks, playbackRate>>
tsVars == <<serverOffset, tsPeers, tsPeerIds, activePeerId, extraTimeOffset>>
rtcVars == <<connections, connectionsArray, rtcPeerIds, rtcEnabled, dataChannels, links>>
QueueView == <<playlist, internalPlaylist, reason, lastUpdate, playingItemIndex,
               startPositionTicks, shuffleMode, repeatMode>>
queueVars == <<playlist, internalPlaylist, reason, lastUpdate, playingItemIndex,
               startPositionTicks, shuffleMode, repeatMode, pendingLookups, pendingFollows>>
vars == <<now, effects, mgrVars, pmVars, settingsVars, coreVars, playerVars, tsVars,
          pingRequests, rtcVars, queueVars>>

(***************************************************************************)
(* Small helpers.                                                          *)
(***************************************************************************)
Abs(x) == IF x < 0 THEN 0 - x ELSE x

Call(name, arg) == [call |-> name, arg |-> arg]

IndexOf(seq, x) ==
  IF \E i \in 1..Len(seq) : seq[i] = x
    THEN (CHOOSE i \in 1..Len(seq) : seq[i] = x /\ \A j \in 1..(i - 1) : seq[j] # x) - 1
    ELSE 0 - 1

\* Array.prototype.splice(index, 1): a negative index counts from the end.
Splice1(seq, index) ==
  LET at == IF index < 0 THEN (IF Len(seq) + index < 0 THEN 0 ELSE Len(seq) + index) ELSE index
  IN  [i \in 1..(IF at < Len(seq) THEN Len(seq) - 1 ELSE Len(seq)) |->
         IF i <= at THEN seq[i] ELSE seq[i + 1]]

(***************************************************************************)
(* TimeSyncCore: conversions between server time and local time.           *)
(***************************************************************************)
\* TimeSync.remoteDateToLocal / localDateToRemote of one source.
SourceRemoteToLocal(offset, t) == t - offset
SourceLocalToRemote(offset, t) == t + offset

offsetDate(date, offset) == date + offset

\* A TimeSyncPeer as constructed, and the absent entry of the peers map.
\* pingPending: resolvePingRequest and rejectPingRequest hold the callbacks of a promise;
\* requestSent: the requestSent of the 'ping-request' that promise was made for.
NewPeer ==
  [present |-> TRUE, timeOffset |-> 0, peerTimeOffset |-> 0, peerPing |-> 0,
   pingPending |-> FALSE, requestSent |-> NullTime]
NoPeer ==
  [present |-> FALSE, timeOffset |-> 0, peerTimeOffset |-> 0, peerPing |-> 0,
   pingPending |-> FALSE, requestSent |-> NullTime]

\* The fields of a frame: a number, null, or undefined when the field is missing.
Null == 0 - 1
Undefined == 0 - 2

\* The data of a 'time-sync-server-update' frame, and a frame without data.
Frame(timeOffset, ping) == [present |-> TRUE, timeOffset |-> timeOffset, ping |-> ping]
NoData == [present |-> FALSE, timeOffset |-> Undefined, ping |-> Undefined]

\* The test of onTimeSyncServerUpdate: !data || timeOffset === null || ping === null
InvalidServerUpdate(data) == ~data.present \/ data.timeOffset = Null \/ data.ping = Null

\* TimeSyncPeer.onTimeSyncServerUpdate(data)
onTimeSyncServerUpdate(peer, data) ==
  IF InvalidServerUpdate(data) THEN peer
  ELSE [peer EXCEPT !.peerTimeOffset = data.timeOffset, !.peerPing = data.ping]

\* if (typeof this.rejectPingRequest === 'function') this.rejectPingRequest('Peer disconnected.')
rejectPending_Never(peer) == <<>>

rejectPending(peer) ==
  IF peer.present /\ peer.pingPending THEN <<[call |-> "rejectPingRequest", arg |-> 0]>> ELSE <<>>

\* TimeSyncPeer.onConnected(): the pending request is rejected and the callbacks reset.
onConnected(peer) ==
  [peer EXCEPT !.present = TRUE, !.pingPending = FALSE, !.requestSent = NullTime]

\* getPeerById(peerId) is truthy.
HasPeer(peerId) == peerId \in DOMAIN tsPeers /\ tsPeers[peerId].present

\* server is the offset of the server source at the time of the call.
RECURSIVE remoteDateToLocal(_, _, _)
remoteDateToLocal(server, active, remote) ==
  LET date ==
        IF active # "server"
          THEN IF ~HasPeer(active)
                 THEN remoteDateToLocal(server, "server", remote)
                 ELSE SourceRemoteToLocal(tsPeers[active].timeOffset,
                                          remote - tsPeers[active].peerTimeOffset)
          ELSE SourceRemoteToLocal(server, remote)
  IN  offsetDate(date, 0 - extraTimeOffset)

RECURSIVE localDateToRemote(_, _, _)
localDateToRemote(server, active, local) ==
  LET date ==
        IF active # "server"
          THEN IF ~HasPeer(active)
                 THEN localDateToRemote(server, "server", local)
                 ELSE SourceLocalToRemote(tsPeers[active].timeOffset, local)
                        + tsPeers[active].peerTimeOffset
          ELSE SourceLocalToRemote(server, local)
  IN  offsetDate(date, extraTimeOffset)

\* The active source after a conversion: a vanished peer is replaced by the server.
ActiveAfterConversion(active) ==
  IF active # "server" /\ ~HasPeer(active) THEN "server" ELSE active

(***************************************************************************)
(* The state a handler of the playback core works on: the fields of the    *)
(* core, of the player wrapper and of the player, the active time source,  *)
(* the manager's command fields and the calls made so far.  Handlers are   *)
(* functions on this record.                                               *)
(***************************************************************************)
Core ==
  [lastCommand |-> lastCommand, timers |-> timers, waiters |-> waiters,
   syncEnabled |-> syncEnabled, syncAttempts |-> syncAttempts,
   lastSyncTime |-> lastSyncTime, playerIsBuffering |-> playerIsBuffering,
   isPlayerActive |-> isPlayerActive, paused |-> paused, playerTicks |-> playerTicks,
   playbackRate |-> playbackRate, activePeerId |-> activePeerId,
   syncPlayReady |-> syncPlayReady, queuedCommand |-> queuedCommand,
   lastPlaybackCommand |-> lastPlaybackCommand, serverOffset |-> serverOffset,
   effects |-> <<>>]

Commit(s) ==
  /\ lastCommand' = s.lastCommand
  /\ timers' = s.timers
  /\ waiters' = s.waiters
  /\ syncEnabled' = s.syncEnabled
  /\ syncAttempts' = s.syncAttempts
  /\ lastSyncTime' = s.lastSyncTime
  /\ playerIsBuffering' = s.playerIsBuffering
  /\ isPlayerActive' = s.isPlayerActive
  /\ paused' = s.paused
  /\ playerTicks' = s.playerTicks
  /\ playbackRate' = s.playbackRate
  /\ activePeerId' = s.activePeerId
  /\ syncPlayReady' = s.syncPlayReady
  /\ queuedCommand' = s.queuedCommand
  /\ lastPlaybackCommand' = s.lastPlaybackCommand
  /\ serverOffset' = s.serverOffset
  /\ effects' = s.effects

Log(s, name, arg) == [s EXCEPT !.effects = Append(@, Call(name, arg))]

\* A conversion replaces a vanished active peer by the server.
Converted(s) == [s EXCEPT !.activePeerId = ActiveAfterConversion(@)]

\* The calls of a log other than console output.
Console ==
  {"console.debug: duplicate command received", "console.debug: command already scheduled",
   "console.debug: SyncPlay not enabled, ignoring command",
   "console.debug: ignoring old command", "console.debug: SyncPlay not ready, queued command",
   "console.debug: no active player", "console.warn: playlist item does not match",
   "console.log: SyncPlay will", "console.debug: ignoring old update",
   "console.warn: updatePlayQueue", "console.debug: time sync with server issue",
   "console.error: no connection found for peer",
   "console.error: peer has no data channel open"}

Calls(log) == SelectSeq(log, LAMBDA c : c.call \notin Console)

Called(log, name) == \E i \in 1..Len(log) : log[i].call = name

\* null is 0 in arithmetic.
Num(ticks) == IF ticks = NullTicks THEN 0 ELSE ticks

(***************************************************************************)
(* Timers.  A timer is armed from setTimeout until it fires or is cleared. *)
(* held says that the handle field it was stored in (scheduledCommand-     *)
(* Timeout, syncTimeout, notifyBuffering) still refers to it.              *)
(***************************************************************************)
CommandTimerKinds == {"unpause", "pause", "stop", "seek"}
SyncTimerKinds == {"syncGuard", "rateRestore"}
BufferingTimerKinds == {"notifyBuffering"}

Timer(kind, due, pos) == [kind |-> kind, due |-> due, pos |-> pos, held |-> TRUE]

\* clearTimeout(handle); the log tells the handle and how many armed timers it cancelled.
ClearCall(kinds) ==
  CASE kinds = CommandTimerKinds -> "clearTimeout(scheduledCommandTimeout)"
    [] kinds = SyncTimerKinds -> "clearTimeout(syncTimeout)"
    [] OTHER -> "clearTimeout(notifyBuffering)"

ClearTimeout(s, kinds) ==
  LET cancelled == {t \in s.timers : t.kind \in kinds /\ t.held}
  IN  Log([s EXCEPT !.timers = @ \ cancelled], ClearCall(kinds), Cardinality(cancelled))

\* handle = setTimeout(callback, delay): the handle no longer refers to an earlier timer.
SetTimeout(s, kinds, kind, delay, pos) ==
  LET released == {IF t.kind \in kinds THEN [t EXCEPT !.held = FALSE] ELSE t : t \in s.timers}
  IN  Log([s EXCEPT !.timers = released \cup {Timer(kind, now + delay, pos)}],
          "setTimeout", delay)

\* syncPlayHelper.waitForEventOnce(emitter, eventType, timeout).then(...).catch(...)
Waiter(event, then, pos, timeout) ==
  [event |-> event, then |-> then, pos |-> pos,
   due |-> IF timeout = NoTimeout THEN NoTimeout ELSE now + timeout]

waitForEventOnce(s, event, then, pos, timeout) ==
  [s EXCEPT !.waiters = Append(@, Waiter(event, then, pos, timeout))]

(***************************************************************************)
(* Player wrapper (SyncPlayHtmlVideoPlayer) and the local primitives of    *)
(* the playback core.                                                      *)
(***************************************************************************)
isPlaybackActive(s) == s.isPlayerActive

isPlaying(s) == ~s.paused

hasPlaybackRate == TRUE

setPlaybackRate(s, value) == Log([s EXCEPT !.playbackRate = value], "setPlaybackRate", value)

localUnpause(s) ==
  IF ~isPlaybackActive(s) THEN s
  ELSE Log([s EXCEPT !.paused = FALSE], "localUnpause", 0)

localPause(s) ==
  IF ~isPlaybackActive(s) THEN s
  ELSE Log([s EXCEPT !.paused = TRUE], "localPause", 0)

localSeek(s, positionTicks) ==
  IF ~isPlaybackActive(s) THEN s
  ELSE Log([s EXCEPT !.playerTicks = Num(positionTicks)], "localSeek", positionTicks)

localStop(s) ==
  IF ~isPlaybackActive(s) THEN s
  ELSE Log(s, "localStop", 0)

\* sendBufferingRequest(isBuffering): BufferingDone = !isBuffering
sendBufferingRequest(s, isBuffering) ==
  Log(Converted(s), "requestSyncPlayBuffering", IF isBuffering THEN 0 ELSE 1)

estimateCurrentTicks_NoElapsed(s, ticks, when, currentTime) == Num(ticks)

estimateCurrentTicks(s, ticks, when, currentTime) ==
  Num(ticks) + (localDateToRemote(s.serverOffset, s.activePeerId, currentTime) - when) * TicksPerMillisecond

(***************************************************************************)
(* SyncPlayPlaybackCore: scheduling.                                       *)
(***************************************************************************)
clearScheduledCommand_NoClear(s) ==
  LET s1 == ClearTimeout(s, SyncTimerKinds)
      s2 == [s1 EXCEPT !.syncEnabled = FALSE]
  IN  IF hasPlaybackRate THEN setPlaybackRate(s2, 1000) ELSE s2

clearScheduledCommand_KeepNudge(s) ==
  [ClearTimeout(s, CommandTimerKinds) EXCEPT !.syncEnabled = FALSE]

clearScheduledCommand(s) ==
  LET s0 == ClearTimeout(s, CommandTimerKinds)
      s1 == ClearTimeout(s0, SyncTimerKinds)
      s2 == [s1 EXCEPT !.syncEnabled = FALSE]
  IN  IF hasPlaybackRate THEN setPlaybackRate(s2, 1000) ELSE s2

enableSyncTimeout == maxDelaySpeedToSync \div 2

\* The callbacks armed by the schedule operations.
unpauseCallback(s) ==
  SetTimeout(localUnpause(s), SyncTimerKinds, "syncGuard", enableSyncTimeout, NullTicks)

pauseCallback(s, positionTicks) ==
  localPause(waitForEventOnce(s, "pause", "pauseSeek", positionTicks, WaitForPlayerEventTimeout))

stopCallback(s) == localStop(s)

seekCallback_NoWait(s, positionTicks) == localSeek(localUnpause(s), positionTicks)

seekCallback(s, positionTicks) ==
  waitForEventOnce(localSeek(localUnpause(s), positionTicks),
                   "ready", "readyPause", positionTicks, WaitForEventDefaultTimeout)

scheduleUnpause_AlwaysSeek(s, playAtTime, positionTicks) ==
  LET s1 == Converted(clearScheduledCommand(s))
      playAtTimeLocal == remoteDateToLocal(s.serverOffset, s.activePeerId, playAtTime)
  IN  IF playAtTimeLocal > now
        THEN SetTimeout(localSeek(s1, positionTicks), CommandTimerKinds, "unpause",
                        playAtTimeLocal - now, positionTicks)
        ELSE LET serverPositionTicks == estimateCurrentTicks(s1, positionTicks, playAtTime, now)
                 s2 == waitForEventOnce(s1, "unpause", "seek", serverPositionTicks, NoTimeout)
                 s3 == localUnpause(s2)
             IN  SetTimeout(s3, SyncTimerKinds, "syncGuard", enableSyncTimeout, NullTicks)

scheduleUnpause(s, playAtTime, positionTicks) ==
  LET s1 == Converted(clearScheduledCommand(s))
      playAtTimeLocal == remoteDateToLocal(s.serverOffset, s.activePeerId, playAtTime)
      currentPositionTicks == s1.playerTicks
  IN  IF playAtTimeLocal > now
        THEN LET s2 == IF (currentPositionTicks - Num(positionTicks))
                            > minDelaySkipToSync * TicksPerMillisecond
                         THEN localSeek(s1, positionTicks) ELSE s1
             IN  SetTimeout(s2, CommandTimerKinds, "unpause", playAtTimeLocal - now, positionTicks)
        ELSE LET serverPositionTicks == estimateCurrentTicks(s1, positionTicks, playAtTime, now)
                 s2 == waitForEventOnce(s1, "unpause", "seek", serverPositionTicks, NoTimeout)
                 s3 == localUnpause(s2)
             IN  SetTimeout(s3, SyncTimerKinds, "syncGuard", enableSyncTimeout, NullTicks)

schedulePause_Immediate(s, pauseAtTime, positionTicks) ==
  pauseCallback(Converted(clearScheduledCommand(s)), positionTicks)

schedulePause(s, pauseAtTime, positionTicks) ==
  LET s1 == Converted(clearScheduledCommand(s))
      pauseAtTimeLocal == remoteDateToLocal(s.serverOffset, s.activePeerId, pauseAtTime)
  IN  IF pauseAtTimeLocal > now
        THEN SetTimeout(s1, CommandTimerKinds, "pause", pauseAtTimeLocal - now, positionTicks)
        ELSE pauseCallback(s1, positionTicks)

scheduleStop(s, stopAtTime) ==
  LET s1 == Converted(clearScheduledCommand(s))
      stopAtTimeLocal == remoteDateToLocal(s.serverOffset, s.activePeerId, stopAtTime)
  IN  IF stopAtTimeLocal > now
        THEN SetTimeout(s1, CommandTimerKinds, "stop", stopAtTimeLocal - now, NullTicks)
        ELSE stopCallback(s1)

scheduleSeek(s, seekAtTime, positionTicks) ==
  LET s1 == Converted(clearScheduledCommand(s))
      seekAtTimeLocal == remoteDateToLocal(s.serverOffset, s.activePeerId, seekAtTime)
  IN  IF seekAtTimeLocal > now
        THEN SetTimeout(s1, CommandTimerKinds, "seek", seekAtTimeLocal - now, positionTicks)
        ELSE seekCallback(s1, positionTicks)

\* The player is driven by this client (SyncPlayHtmlVideoPlayer), not by a remote device.
isRemote == FALSE

IsDuplicate(last, command) ==
  /\ last # NoCommand
  /\ last.When = command.When
  /\ last.PositionTicks = command.PositionTicks
  /\ last.Command = command.Command
  /\ last.PlaylistItemId = command.PlaylistItemId

\* Math.round((Math.random() - 0.5) * rangeWidth), with Math.random() in [0, 1)
RandomOffsets == (0 - (rangeWidth \div 2))..(rangeWidth \div 2)

Schedule(s, command, positionTicks) ==
  CASE command.Command = "Unpause" -> scheduleUnpause(s, command.When, positionTicks)
    [] command.Command = "Pause" -> schedulePause(s, command.When, positionTicks)
    [] command.Command = "Stop" -> scheduleStop(s, command.When)
    [] command.Command = "Seek" -> scheduleSeek(s, command.When, positionTicks)
    [] OTHER -> s

\* whenLocal > currentTime: the duplicate is still to come.
AlreadyScheduled_Never(s, command) == FALSE

AlreadyScheduled(s, command) ==
  remoteDateToLocal(s.serverOffset, s.activePeerId, command.When) > now

\* The playback state does not match a duplicate command whose time has passed.
Diverged_PlayingOnly(s, command) ==
  CASE command.Command = "Unpause" -> ~isPlaying(s)
    [] command.Command \in {"Pause", "Stop", "Seek"} -> isPlaying(s)
    [] OTHER -> FALSE

Diverged(s, command) ==
  CASE command.Command = "Unpause" -> ~isPlaying(s)
    [] command.Command = "Pause" -> isPlaying(s) \/ s.playerTicks # command.PositionTicks
    [] command.Command = "Stop" -> isPlaying(s)
    [] command.Command = "Seek" -> isPlaying(s) \/ s.playerTicks # command.PositionTicks
    [] OTHER -> FALSE

\* applyCommand(command); random is the rounded random offset in milliseconds.
applyCommand(s, command, random) ==
  IF IsDuplicate(s.lastCommand, command)
    THEN LET s1 == Converted(Log(s, "console.debug: duplicate command received", 0))
         IN  IF AlreadyScheduled(s, command)
               THEN Log(s1, "console.debug: command already scheduled", 0)
             ELSE IF Diverged(s1, command)
               THEN Schedule(s1, command,
                             IF command.Command = "Seek"
                               THEN command.PositionTicks + random * TicksPerMillisecond
                               ELSE command.PositionTicks)
             ELSE IF command.Command = "Seek" THEN sendBufferingRequest(s1, FALSE)
             ELSE s1
    ELSE LET s1 == [s EXCEPT !.lastCommand = command]
         IN  IF isRemote THEN s1 ELSE Schedule(s1, command, command.PositionTicks)

(***************************************************************************)
(* SyncPlayPlaybackCore: drift correction.                                 *)
(***************************************************************************)
speedToSyncTime_NoMinSpeed(diffMillis, duration) == [num |-> duration, den |-> 1]

\* speedToSyncTime, as the fraction num / den: the duration, replaced by
\* |diffMillis| / (1 - MinSpeed) when the client is ahead by MinSpeed * duration or more.
speedToSyncTime(diffMillis, duration) ==
  IF diffMillis * 1000 <= 0 - duration * MinSpeedPerMille
    THEN [num |-> Abs(diffMillis) * 1000, den |-> 1000 - MinSpeedPerMille]
    ELSE [num |-> duration, den |-> 1]

\* speed = 1 + diffMillis / speedToSyncTime, in thousandths; speedToSyncTime = num / den.
\* The quotient 1000 * diffMillis * den / num is taken in two parts to stay within 32 bits.
SpeedPerMille(diffMillis, num, den) ==
  LET a == 1000 * diffMillis
  IN  1000 + (a \div num) * den + (((a % num) * den) \div num)

Speed(diffMillis, duration) ==
  LET time == speedToSyncTime(diffMillis, duration)
  IN  SpeedPerMille(diffMillis, time.num, time.den)

syncPlaybackTime_IgnoreSyncEnabled(s, currentTime, currentPositionTicks) ==
  IF ~isPlaybackActive(s) THEN s
  ELSE IF s.lastCommand = NoCommand \/ s.lastCommand.Command # "Unpause" \/ s.playerIsBuffering
    THEN s
  ELSE
    LET serverPositionTicks ==
          estimateCurrentTicks(s, s.lastCommand.PositionTicks, s.lastCommand.When, currentTime)
        s0 == Converted(s)
        diffMillis == (serverPositionTicks - currentPositionTicks) \div TicksPerMillisecond
        elapsed == currentTime - s0.lastSyncTime
        s1 == [s0 EXCEPT !.lastSyncTime = currentTime]
        absDiffMillis == Abs(diffMillis)
        time == speedToSyncTime(diffMillis, speedToSyncDuration)
        speed == Speed(diffMillis, speedToSyncDuration)
    IN  IF elapsed < maxDelaySpeedToSync \div 2 THEN s0
        ELSE IF ~enableSyncCorrection THEN s1
        ELSE IF hasPlaybackRate /\ useSpeedToSync /\ absDiffMillis >= minDelaySpeedToSync
                  /\ absDiffMillis < maxDelaySpeedToSync
          THEN SetTimeout([setPlaybackRate(s1, speed) EXCEPT !.syncEnabled = FALSE,
                                                             !.syncAttempts = @ + 1],
                          SyncTimerKinds, "rateRestore", time.num \div time.den, NullTicks)
        ELSE IF useSkipToSync /\ absDiffMillis >= minDelaySkipToSync
          THEN SetTimeout([localSeek(s1, serverPositionTicks) EXCEPT !.syncEnabled = FALSE,
                                                                    !.syncAttempts = @ + 1],
                          SyncTimerKinds, "syncGuard", maxDelaySpeedToSync \div 2, NullTicks)
        ELSE [s1 EXCEPT !.syncAttempts = 0]

syncPlaybackTime_SkipFirst(s, currentTime, currentPositionTicks) ==
  IF ~isPlaybackActive(s) THEN s
  ELSE IF s.lastCommand = NoCommand \/ s.lastCommand.Command # "Unpause" \/ s.playerIsBuffering
    THEN s
  ELSE
    LET serverPositionTicks ==
          estimateCurrentTicks(s, s.lastCommand.PositionTicks, s.lastCommand.When, currentTime)
        s0 == Converted(s)
        diffMillis == (serverPositionTicks - currentPositionTicks) \div TicksPerMillisecond
        elapsed == currentTime - s0.lastSyncTime
        s1 == [s0 EXCEPT !.lastSyncTime = currentTime]
        absDiffMillis == Abs(diffMillis)
        time == speedToSyncTime(diffMillis, speedToSyncDuration)
        speed == Speed(diffMillis, speedToSyncDuration)
    IN  IF elapsed < maxDelaySpeedToSync \div 2 THEN s0
        ELSE IF ~(s1.syncEnabled /\ enableSyncCorrection) THEN s1
        ELSE IF useSkipToSync /\ absDiffMillis >= minDelaySkipToSync
          THEN SetTimeout([localSeek(s1, serverPositionTicks) EXCEPT !.syncEnabled = FALSE,
                                                                    !.syncAttempts = @ + 1],
                          SyncTimerKinds, "syncGuard", maxDelaySpeedToSync \div 2, NullTicks)
        ELSE IF hasPlaybackRate /\ useSpeedToSync /\ absDiffMillis >= minDelaySpeedToSync
                  /\ absDiffMillis < maxDelaySpeedToSync
          THEN SetTimeout([setPlaybackRate(s1, speed) EXCEPT !.syncEnabled = FALSE,
                                                             !.syncAttempts = @ + 1],
                          SyncTimerKinds, "rateRestore", time.num \div time.den, NullTicks)
        ELSE [s1 EXCEPT !.syncAttempts = 0]

syncPlaybackTime_WhileBuffering(s, currentTime, currentPositionTicks) ==
  IF ~isPlaybackActive(s) THEN s
  ELSE IF s.lastCommand = NoCommand \/ s.lastCommand.Command # "Unpause"
    THEN s
  ELSE
    LET serverPositionTicks ==
          estimateCurrentTicks(s, s.lastCommand.PositionTicks, s.lastCommand.When, currentTime)
        s0 == Converted(s)
        diffMillis == (serverPositionTicks - currentPositionTicks) \div TicksPerMillisecond
        elapsed == currentTime - s0.lastSyncTime
        s1 == [s0 EXCEPT !.lastSyncTime = currentTime]
        absDiffMillis == Abs(diffMillis)
        time == speedToSyncTime(diffMillis, speedToSyncDuration)
        speed == Speed(diffMillis, speedToSyncDuration)
    IN  IF elapsed < maxDelaySpeedToSync \div 2 THEN s0
        ELSE IF ~(s1.syncEnabled /\ enableSyncCorrection) THEN s1
        ELSE IF hasPlaybackRate /\ useSpeedToSync /\ absDiffMillis >= minDelaySpeedToSync
                  /\ absDiffMillis < maxDelaySpeedToSync
          THEN SetTimeout([setPlaybackRate(s1, speed) EXCEPT !.syncEnabled = FALSE,
                                                             !.syncAttempts = @ + 1],
                          SyncTimerKinds, "rateRestore", time.num \div time.den, NullTicks)
        ELSE IF useSkipToSync /\ absDiffMillis >= minDelaySkipToSync
          THEN SetTimeout([localSeek(s1, serverPositionTicks) EXCEPT !.syncEnabled = FALSE,
                                                                    !.syncAttempts = @ + 1],
                          SyncTimerKinds, "syncGuard", maxDelaySpeedToSync \div 2, NullTicks)
        ELSE [s1 EXCEPT !.syncAttempts = 0]

syncPlaybackTime(s, currentTime, currentPositionTicks) ==
  IF ~isPlaybackActive(s) THEN s
  ELSE IF s.lastCommand = NoCommand \/ s.lastCommand.Command # "Unpause" \/ s.playerIsBuffering
    THEN s
  ELSE
    LET serverPositionTicks ==
          estimateCurrentTicks(s, s.lastCommand.PositionTicks, s.lastCommand.When, currentTime)
        s0 == Converted(s)
        diffMillis == (serverPositionTicks - currentPositionTicks) \div TicksPerMillisecond
        elapsed == currentTime - s0.lastSyncTime
        s1 == [s0 EXCEPT !.lastSyncTime = currentTime]
        absDiffMillis == Abs(diffMillis)
        time == speedToSyncTime(diffMillis, speedToSyncDuration)
        speed == Speed(diffMillis, speedToSyncDuration)
    IN  IF elapsed < maxDelaySpeedToSync \div 2 THEN s0
        ELSE IF ~(s1.syncEnabled /\ enableSyncCorrection) THEN s1
        ELSE IF hasPlaybackRate /\ useSpeedToSync /\ absDiffMillis >= minDelaySpeedToSync
                  /\ absDiffMillis < maxDelaySpeedToSync
          THEN SetTimeout([setPlaybackRate(s1, speed) EXCEPT !.syncEnabled = FALSE,
                                                             !.syncAttempts = @ + 1],
                          SyncTimerKinds, "rateRestore", time.num \div time.den, NullTicks)
        ELSE IF useSkipToSync /\ absDiffMillis >= minDelaySkipToSync
          THEN SetTimeout([localSeek(s1, serverPositionTicks) EXCEPT !.syncEnabled = FALSE,
                                                                    !.syncAttempts = @ + 1],
                          SyncTimerKinds, "syncGuard", maxDelaySpeedToSync \div 2, NullTicks)
        ELSE [s1 EXCEPT !.syncAttempts = 0]

(***************************************************************************)
(* Continuations of waitForEventOnce.                                      *)
(***************************************************************************)
\* .then(...)
Resolved(s, w) ==
  CASE w.then = "seek" -> localSeek(s, w.pos)
    [] w.then = "pauseSeek" -> localSeek(s, w.pos)
    [] w.then = "readyPause" -> sendBufferingRequest(localPause(s), FALSE)
    [] w.then = "startPause" -> Log(Converted(localPause(s)), "requestSyncPlayBuffering", 1)
    [] OTHER -> s

Rejected_Silent(s, w) == s

\* .catch(...) after the timeout rejected the promise
Rejected(s, w) ==
  CASE w.then = "pauseSeek" -> localSeek(s, w.pos)
    [] w.then = "readyPause" -> localSeek(s, w.pos)
    [] OTHER -> s

RECURSIVE RunWaiters(_, _, _)
RunWaiters(s, ws, event) ==
  IF ws = <<>> THEN s
  ELSE IF Head(ws).event = event
    THEN RunWaiters(Resolved(s, Head(ws)), Tail(ws), event)
    ELSE RunWaiters(s, Tail(ws), event)

\* events.trigger(manager, event): every waiter of the event is released, in order.
Trigger(s, event) ==
  LET rest == SelectSeq(s.waiters, LAMBDA w : w.event # event)
  IN  RunWaiters([s EXCEPT !.waiters = rest], s.waiters, event)

(***************************************************************************)
(* SyncPlayQueueManager: the current item.                                 *)
(***************************************************************************)
getCurrentPlaylistItemId ==
  IF playingItemIndex = 0 - 1 THEN NullId
  ELSE IF playingItemIndex + 1 \in 1..Len(playlist) THEN playlist[playingItemIndex + 1]
  ELSE "TypeError"

(***************************************************************************)
(* SyncPlayManager: playback commands.                                     *)
(***************************************************************************)
isSyncPlayEnabled == syncPlayEnabledAt # NullTime

\* getGroupInfo()
getGroupInfo == groupInfo

\* cmd.PositionTicks ? parseInt(cmd.PositionTicks) : null
ParseCommand(cmd) ==
  [cmd EXCEPT !.PositionTicks = IF @ = 0 \/ @ = NullTicks THEN NullTicks ELSE @]

processCommand_NoItemCheck(s, wire, random) ==
  LET cmd == ParseCommand(wire)
  IN  IF wire = NoCommand THEN s
      ELSE IF ~isSyncPlayEnabled
        THEN Log(s, "console.debug: SyncPlay not enabled, ignoring command", 0)
      ELSE IF cmd.EmittedAt < syncPlayEnabledAt
        THEN Log(s, "console.debug: ignoring old command", 0)
      ELSE IF ~s.syncPlayReady
        THEN [Log(s, "console.debug: SyncPlay not ready, queued command", 0)
                EXCEPT !.queuedCommand = cmd]
      ELSE LET s1 == [s EXCEPT !.lastPlaybackCommand = cmd]
           IN  IF ~isPlaybackActive(s1) THEN Log(s1, "console.debug: no active player", 0)
               ELSE applyCommand(Log(s1, "console.log: SyncPlay will", 0), cmd, random)

processCommand(s, wire, random) ==
  LET cmd == ParseCommand(wire)
  IN  IF wire = NoCommand THEN s
      ELSE IF ~isSyncPlayEnabled
        THEN Log(s, "console.debug: SyncPlay not enabled, ignoring command", 0)
      ELSE IF cmd.EmittedAt < syncPlayEnabledAt
        THEN Log(s, "console.debug: ignoring old command", 0)
      ELSE IF ~s.syncPlayReady
        THEN [Log(s, "console.debug: SyncPlay not ready, queued command", 0)
                EXCEPT !.queuedCommand = cmd]
      ELSE LET s1 == [s EXCEPT !.lastPlaybackCommand = cmd]
           IN  IF ~isPlaybackActive(s1) THEN Log(s1, "console.debug: no active player", 0)
               ELSE IF cmd.PlaylistItemId # getCurrentPlaylistItemId
                 THEN Log(s1, "console.warn: playlist item does not match", 0)
               ELSE applyCommand(Log(s1, "console.log: SyncPlay will", 0), cmd, random)

(***************************************************************************)
(* Inputs of the model.                                                    *)
(***************************************************************************)
CommandKinds == {"Unpause", "Pause", "Stop", "Seek"}
Whens == {1000, 2000}
P0 == 1000 * TicksPerMillisecond
Items == {"A", "B"}
EnableTimes == {500}
EmittedAts == {0, 1000}
Offsets == {1000}
PlayerPositions == {P0, P0 + 500 * TicksPerMillisecond}
RandomSample == {r \in RandomOffsets : r % (rangeWidth \div 2) = 0}
PeerIds == {"p1", "p2"}

MaxCandidates == 3

\* SyncPlayWebRTCPeer: the ICE state of one link. Candidates are named by their order of
\* arrival on the link; added lists the calls of peerConnection.addIceCandidate in order;
\* channel is the state of the link's own dataChannel ("none" while it has none).
NoLink ==
  [isHost |-> FALSE, remoteDescription |-> FALSE, setting |-> "none", received |-> 0,
   iceCandidates |-> <<>>, added |-> <<>>, draining |-> 0, channel |-> "none"]

\* The host creates the data channel with the link, the guest waits for it.
NewLink(isHost) ==
  [NoLink EXCEPT !.isHost = isHost, !.channel = IF isHost THEN "connecting" ELSE "none"]

PeerOffsets == {0, 300}
PeerServerOffsets == {0, 700}
ExtraTimeOffsets == {0, 50}
Instants == {0, 5000}

Commands ==
  {[Command |-> k, When |-> w, EmittedAt |-> e,
    PositionTicks |-> IF k = "Stop" THEN NullTicks ELSE P0, PlaylistItemId |-> i] :
     k \in CommandKinds, w \in Whens, e \in EmittedAts, i \in Items}

\* The one play queue of the session specifications.
SessionQueue ==
  [LastUpdate |-> 1, Playlist |-> <<"A">>, PlayingItemIndex |-> 0, StartPositionTicks |-> 0,
   ShuffleMode |-> "Sorted", RepeatMode |-> "RepeatNone", Reason |-> "NewPlaylist"]

(***************************************************************************)
(* Initial state: the singletons as constructed, no group joined.          *)
(***************************************************************************)
InitManager ==
  /\ groupInfo = NullTime
  /\ syncPlayEnabledAt = NullTime
  /\ syncPlayReady = FALSE
  /\ queuedCommand = NoCommand
  /\ followingGroupPlayback = TRUE
  /\ lastPlaybackCommand = NoCommand
  /\ readyWaiters = 0
  /\ pmSyncPlayEnabled = FALSE
  /\ pmMethods = "original"
  /\ pmSaved = "undefined"

InitCore ==
  /\ lastCommand = NoCommand
  /\ timers = {}
  /\ waiters = <<>>
  /\ syncEnabled = FALSE
  /\ syncAttempts = 0
  /\ lastSyncTime = 0
  /\ playerIsBuffering = FALSE

\* Both correction strategies and the correction itself are switched on.
InitSettings ==
  /\ useSpeedToSync = TRUE
  /\ useSkipToSync = TRUE
  /\ enableSyncCorrection = TRUE

InitPlayer ==
  /\ isPlayerActive = FALSE
  /\ paused = TRUE
  /\ playerTicks = 0
  /\ playbackRate = 1000

InitTimeSync ==
  /\ serverOffset = 0
  /\ tsPeers = [p \in PeerIds |-> NoPeer]
  /\ pingRequests = [p \in PeerIds |-> {}]
  /\ tsPeerIds = <<>>
  /\ activePeerId = "server"
  /\ extraTimeOffset = 0

InitWebRTC ==
  /\ connections = [p \in PeerIds |-> FALSE]
  /\ connectionsArray = <<>>
  /\ rtcPeerIds = <<>>
  /\ rtcEnabled = FALSE
  /\ dataChannels = [p \in PeerIds |-> "none"]
  /\ links = [p \in PeerIds |-> NoLink]

InitQueue ==
  /\ playlist = <<>>
  /\ internalPlaylist = <<>>
  /\ reason = "null"
  /\ lastUpdate = NullTime
  /\ playingItemIndex = 0 - 1
  /\ startPositionTicks = 0
  /\ shuffleMode = "Sorted"
  /\ repeatMode = "RepeatNone"
  /\ pendingLookups = {}
  /\ pendingFollows = {}

Init ==
  /\ now = 0
  /\ effects = <<>>
  /\ InitManager
  /\ InitCore
  /\ InitSettings
  /\ InitPlayer
  /\ InitTimeSync
  /\ InitWebRTC
  /\ InitQueue

(***************************************************************************)
(* SyncPlayManager: joining and leaving a group.                           *)
(***************************************************************************)
sessionRest == <<groupInfo, syncPlayEnabledAt, followingGroupPlayback, readyWaiters, pmVars>>
registryRest == <<tsPeers, tsPeerIds, extraTimeOffset>>

\* playbackManager methods are replaced once and restored once; both run after
\* syncPlayEnabledAt has been assigned.
injectPlaybackManager_Unguarded ==
  /\ pmSaved' = pmMethods
  /\ pmMethods' = "syncplay"
  /\ pmSyncPlayEnabled' = TRUE

injectPlaybackManager ==
  IF syncPlayEnabledAt' = NullTime \/ pmSyncPlayEnabled
    THEN UNCHANGED pmVars
    ELSE /\ pmSaved' = pmMethods
         /\ pmMethods' = "syncplay"
         /\ pmSyncPlayEnabled' = TRUE

onSyncPlayShutdown_KeepIndex ==
  /\ internalPlaylist' = <<>>
  /\ reason' = "null"
  /\ playlist' = <<>>
  /\ shuffleMode' = "Sorted"
  /\ repeatMode' = "RepeatNone"
  /\ lastUpdate' = NullTime
  /\ startPositionTicks' = 0
  /\ UNCHANGED playingItemIndex

onSyncPlayShutdown ==
  /\ internalPlaylist' = <<>>
  /\ reason' = "null"
  /\ playlist' = <<>>
  /\ shuffleMode' = "Sorted"
  /\ repeatMode' = "RepeatNone"
  /\ lastUpdate' = NullTime
  /\ playingItemIndex' = 0 - 1
  /\ startPositionTicks' = 0

restorePlaybackManager ==
  IF syncPlayEnabledAt' # NullTime \/ ~pmSyncPlayEnabled
    THEN UNCHANGED <<pmVars, QueueView>>
    ELSE /\ pmMethods' = pmSaved
         /\ pmSaved' = pmSaved
         /\ pmSyncPlayEnabled' = FALSE
         /\ onSyncPlayShutdown

\* SyncPlayWebRTCCore.enable()
webRTCEnable(s, enableWebRTC) ==
  IF enableWebRTC /\ ~rtcEnabled THEN Log(s, "requestSyncPlayWebRTC", 1) ELSE s

\* SyncPlayWebRTCCore.disable(): close() of a link does nothing.
webRTCDisable ==
  IF ~rtcEnabled
    THEN UNCHANGED <<connections, connectionsArray, rtcEnabled, links>>
    ELSE /\ connections' = [p \in PeerIds |-> FALSE]
         /\ links' = [p \in PeerIds |-> NoLink]
         /\ connectionsArray' = <<>>
         /\ rtcEnabled' = FALSE

EnableSyncPlay(lastUpdatedAt, enableWebRTC) ==
  /\ now <= MaxTime
  /\ readyWaiters < MaxReadyWaiters
  /\ groupInfo' = lastUpdatedAt
  /\ syncPlayEnabledAt' = lastUpdatedAt
  /\ injectPlaybackManager
  /\ readyWaiters' = readyWaiters + 1
  /\ followingGroupPlayback' = TRUE
  /\ rtcEnabled' = (rtcEnabled \/ enableWebRTC)
  /\ Commit(webRTCEnable(Log([Core EXCEPT !.syncPlayReady = FALSE], "forceUpdate", 0),
                         enableWebRTC))
  /\ UNCHANGED <<pingRequests, now, settingsVars, registryRest, connections, connectionsArray, rtcPeerIds,
                 dataChannels, links, queueVars>>

DisableSyncPlay ==
  /\ now <= MaxTime
  /\ syncPlayEnabledAt' = NullTime
  /\ followingGroupPlayback' = TRUE
  /\ restorePlaybackManager
  /\ webRTCDisable
  /\ Commit([Core EXCEPT !.syncPlayReady = FALSE, !.lastPlaybackCommand = NoCommand,
                         !.queuedCommand = NoCommand, !.syncEnabled = FALSE])
  /\ UNCHANGED <<pingRequests, now, groupInfo, readyWaiters, settingsVars, registryRest, rtcPeerIds,
                 dataChannels, pendingLookups, pendingFollows>>

\* The continuations enableSyncPlay attached to 'time-sync-server-update', one per
\* waitForEventOnce promise, run in the order they were attached.
RECURSIVE ReadyContinuations_KeepQueued(_, _, _)
ReadyContinuations_KeepQueued(s, n, random) ==
  IF n = 0 THEN s
  ELSE ReadyContinuations_KeepQueued(
         processCommand([s EXCEPT !.syncPlayReady = TRUE], s.queuedCommand, random),
         n - 1, random)

RECURSIVE ReadyContinuations(_, _, _)
ReadyContinuations(s, n, random) ==
  IF n = 0 THEN s
  ELSE LET s1 == processCommand([s EXCEPT !.syncPlayReady = TRUE], s.queuedCommand, random)
       IN  ReadyContinuations([s1 EXCEPT !.queuedCommand = NoCommand], n - 1, random)

\* Whether the 'update' of the server source is passed on as 'time-sync-server-update'.
ServerUpdateTriggers_Always(error) == TRUE

ServerUpdateTriggers(error) == ~error

\* SyncPlayWebRTCPeer.sendMessage(message): the host created its channel with the link,
\* the guest has one once it was announced; send() of a channel that is not open throws.
peerSendMessage(link) ==
  IF link.channel # "none"
    THEN IF link.channel = "open" THEN Call("dataChannel.send", 0)
         ELSE Call("InvalidStateError", 0)
    ELSE Call("console.error: peer has no data channel open", 0)

\* _sendMessage(peerId, message)
sendMessageTo(peerId) ==
  IF ~connections[peerId]
    THEN Call("console.error: no connection found for peer", 0)
    ELSE peerSendMessage(links[peerId])

\* this.peerIds.forEach(peerId => this._sendMessage(peerId, message)): ends at an exception.
RECURSIVE sendMessageToAll(_)
sendMessageToAll(peerIds) ==
  IF peerIds = <<>> THEN <<>>
  ELSE LET first == sendMessageTo(Head(peerIds))
       IN  IF first.call = "InvalidStateError" THEN <<first>>
           ELSE <<first>> \o sendMessageToAll(Tail(peerIds))

\* broadcastMessage(payload): the payload, then what each peer's link does with it.
broadcastMessage(s, payload) ==
  [s EXCEPT !.effects = @ \o <<Call("broadcastMessage", payload)>> \o sendMessageToAll(rtcPeerIds)]

Thrown(s) == s.effects # <<>> /\ s.effects[Len(s.effects)].call = "InvalidStateError"

\* TimeSync 'update' of the server source, as handled by TimeSyncCore: an exception of the
\* broadcast leaves the handler before 'time-sync-server-update' is triggered.
ServerTimeUpdate(error, timeOffset, random) ==
  /\ now <= MaxTime
  /\ IF ~ServerUpdateTriggers(error)
       THEN /\ Commit(Log(Core, "console.debug: time sync with server issue", 0))
            /\ UNCHANGED readyWaiters
       ELSE LET sent == broadcastMessage([Core EXCEPT !.serverOffset = timeOffset], timeOffset)
            IN  IF Thrown(sent)
                  THEN /\ Commit(sent)
                       /\ UNCHANGED readyWaiters
                  ELSE /\ Commit(ReadyContinuations(sent, readyWaiters, random))
                       /\ readyWaiters' = 0
  /\ UNCHANGED <<pingRequests, now, groupInfo, syncPlayEnabledAt, followingGroupPlayback, pmVars, settingsVars,
                 registryRest, rtcVars, queueVars>>

\* processCommand(cmd) of the manager while fewer than maxWaiters promises are pending.
ProcessCommandWithin(cmd, random, maxWaiters) ==
  /\ now <= MaxTime
  /\ Len(waiters) < maxWaiters
  /\ Commit(processCommand(Core, cmd, random))
  /\ UNCHANGED <<pingRequests, now, sessionRest, settingsVars, registryRest, rtcVars, queueVars>>

ProcessCommand(cmd, random) == ProcessCommandWithin(cmd, random, MaxWaiters)

(***************************************************************************)
(* Timers and promise timeouts.                                            *)
(***************************************************************************)
Fired(t) == [Core EXCEPT !.timers = @ \ {t}]

CommandTimerFires(t) ==
  /\ t \in timers
  /\ t.kind \in CommandTimerKinds
  /\ t.due <= now
  /\ Commit(CASE t.kind = "unpause" -> unpauseCallback(Fired(t))
              [] t.kind = "pause" -> pauseCallback(Fired(t), t.pos)
              [] t.kind = "stop" -> stopCallback(Fired(t))
              [] t.kind = "seek" -> seekCallback(Fired(t), t.pos))
  /\ UNCHANGED <<pingRequests, now, sessionRest, settingsVars, registryRest, rtcVars, queueVars>>

SyncTimerFires_KeepRate(t) ==
  /\ t \in timers
  /\ t.kind \in SyncTimerKinds
  /\ t.due <= now
  /\ Commit([Fired(t) EXCEPT !.syncEnabled = TRUE])
  /\ UNCHANGED <<pingRequests, now, sessionRest, settingsVars, registryRest, rtcVars, queueVars>>

SyncTimerFires(t) ==
  /\ t \in timers
  /\ t.kind \in SyncTimerKinds
  /\ t.due <= now
  /\ Commit(IF t.kind = "rateRestore"
              THEN [setPlaybackRate(Fired(t), 1000) EXCEPT !.syncEnabled = TRUE]
              ELSE [Fired(t) EXCEPT !.syncEnabled = TRUE])
  /\ UNCHANGED <<pingRequests, now, sessionRest, settingsVars, registryRest, rtcVars, queueVars>>

onBuffering(s) ==
  sendBufferingRequest([s EXCEPT !.playerIsBuffering = TRUE], TRUE)

NotifyBufferingFires(t) ==
  /\ t \in timers
  /\ t.kind \in BufferingTimerKinds
  /\ t.due <= now
  /\ Commit(onBuffering(Fired(t)))
  /\ UNCHANGED <<pingRequests, now, sessionRest, settingsVars, registryRest, rtcVars, queueVars>>

\* The timeout of a waitForEventOnce promise rejects it.
WaiterTimeout(i) ==
  /\ i \in 1..Len(waiters)
  /\ waiters[i].due # NoTimeout
  /\ waiters[i].due <= now
  /\ Commit(Rejected([Core EXCEPT !.waiters = Splice1(@, i - 1)], waiters[i]))
  /\ UNCHANGED <<pingRequests, now, sessionRest, settingsVars, registryRest, rtcVars, queueVars>>

Deadlines ==
  {t.due : t \in timers} \cup {waiters[i].due : i \in {j \in 1..Len(waiters) : waiters[j].due # NoTimeout}}

Min(S) == CHOOSE x \in S : \A y \in S : x <= y

\* Time passes, up to the next deadline.
Tick ==
  /\ \A d \in Deadlines : d > now
  /\ now <= MaxTime \/ Deadlines # {}
  /\ now' = Min({d \in Deadlines : d > now} \cup {IF now <= MaxTime THEN now + TickMs ELSE now + WaitForEventDefaultTimeout})
  /\ effects' = <<>>
  /\ UNCHANGED <<pingRequests, mgrVars, pmVars, settingsVars, coreVars, playerVars, tsVars, rtcVars, queueVars>>

(***************************************************************************)
(* Player events, as delivered by SyncPlayHtmlVideoPlayer.                 *)
(***************************************************************************)
HasWaiter(event) == \E i \in 1..Len(waiters) : waiters[i].event = event

PlaybackStart ==
  /\ now <= MaxTime
  /\ ~isPlayerActive
  /\ Commit(Trigger([Core EXCEPT !.isPlayerActive = TRUE, !.paused = FALSE, !.playerTicks = 0],
                    "playbackstart"))
  /\ UNCHANGED <<pingRequests, now, sessionRest, settingsVars, registryRest, rtcVars, queueVars>>

\* releaseCurrentPlayer unbinds the wrapper from the player.
releaseCurrentPlayer(s) == s

onPlaybackStop(s) ==
  releaseCurrentPlayer(Trigger([s EXCEPT !.lastCommand = NoCommand], "playbackstop"))

PlaybackStop ==
  /\ now <= MaxTime
  /\ isPlayerActive
  /\ Commit(onPlaybackStop([Core EXCEPT !.isPlayerActive = FALSE, !.paused = TRUE]))
  /\ UNCHANGED <<pingRequests, now, sessionRest, settingsVars, registryRest, rtcVars, queueVars>>

\* 'unpause' and 'pause' of the player; without a listener waiting they change nothing,
\* and only the 'pause' event is then a step of the model.
PlayerUnpause ==
  /\ isPlayerActive
  /\ ~paused
  /\ HasWaiter("unpause")
  /\ Commit(Trigger(Core, "unpause"))
  /\ UNCHANGED <<pingRequests, now, sessionRest, settingsVars, registryRest, rtcVars, queueVars>>

PlayerPause ==
  /\ isPlayerActive
  /\ paused
  /\ Commit(Trigger(Core, "pause"))
  /\ UNCHANGED <<pingRequests, now, sessionRest, settingsVars, registryRest, rtcVars, queueVars>>

onReady(s) ==
  Trigger(sendBufferingRequest([s EXCEPT !.playerIsBuffering = FALSE], FALSE), "ready")

PlayerPlaying ==
  /\ now <= MaxTime
  /\ isPlayerActive
  /\ Commit(onReady(ClearTimeout(Core, BufferingTimerKinds)))
  /\ UNCHANGED <<pingRequests, now, sessionRest, settingsVars, registryRest, rtcVars, queueVars>>

\* Variant: 'waiting' arms the timer without clearing the one armed before.
PlayerWaiting_NoClear ==
  /\ now <= MaxTime
  /\ isPlayerActive
  /\ Commit(SetTimeout(Core, BufferingTimerKinds, "notifyBuffering",
                       minBufferingThresholdMillis, NullTicks))
  /\ UNCHANGED <<pingRequests, now, sessionRest, settingsVars, registryRest, rtcVars, queueVars>>

PlayerWaiting ==
  /\ now <= MaxTime
  /\ isPlayerActive
  /\ Commit(SetTimeout(ClearTimeout(Core, BufferingTimerKinds), BufferingTimerKinds,
                       "notifyBuffering", minBufferingThresholdMillis, NullTicks))
  /\ UNCHANGED <<pingRequests, now, sessionRest, settingsVars, registryRest, rtcVars, queueVars>>

\* 'timeupdate' with the player at positionTicks.
TimeUpdate(positionTicks) ==
  /\ now <= MaxTime
  /\ isPlayerActive
  /\ syncAttempts < MaxSyncAttempts
  /\ Commit(syncPlaybackTime([Core EXCEPT !.playerTicks = positionTicks], now, positionTicks))
  /\ UNCHANGED <<pingRequests, now, sessionRest, settingsVars, registryRest, rtcVars, queueVars>>

(***************************************************************************)
(* Peer mesh and time-sync registry.                                       *)
(***************************************************************************)
\* removeConnection(userId) of a known user
removeConnection(conns, array, userId) ==
  [connections |-> [conns EXCEPT ![userId] = FALSE],
   connectionsArray |-> Splice1(array, IndexOf(array, userId))]

\* addConnection(userId, isHost)
addConnection(conns, array, userId) ==
  LET old == IF conns[userId] THEN removeConnection(conns, array, userId)
             ELSE [connections |-> conns, connectionsArray |-> array]
  IN  [connections |-> [old.connections EXCEPT ![userId] = TRUE],
       connectionsArray |-> Append(old.connectionsArray, userId)]

Opened(channels, userId) ==
  [channels EXCEPT ![userId] = IF @ = "open" THEN "open" ELSE "pending"]

onRemoteICECandidate(link, iceCandidate) ==
  IF ~link.remoteDescription
    THEN [link EXCEPT !.iceCandidates = Append(@, iceCandidate)]
    ELSE [link EXCEPT !.added = Append(@, iceCandidate)]

\* One turn of the loop of setICECandidatesQueue(), up to its next await; draining is the
\* position of the loop in iceCandidates. After the loop the answer is sent.
setICECandidatesQueue(link) ==
  IF link.draining <= Len(link.iceCandidates)
    THEN [link EXCEPT !.added = Append(@, link.iceCandidates[link.draining]),
                      !.draining = @ + 1]
    ELSE [link EXCEPT !.iceCandidates = <<>>, !.draining = 0]

\* onSignalingMessage(apiClient, message), up to its first await.
onSignalingMessage(link, kind) ==
  CASE kind \in {"Offer", "Answer"} -> [link EXCEPT !.setting = kind]
    [] kind = "ICECandidate" ->
         onRemoteICECandidate([link EXCEPT !.received = @ + 1], link.received + 1)
    [] OTHER -> link

\* What the remote end sends: an offer to its guest, an answer to the host that made the
\* offer, one description per link, and a bounded number of candidates.
Deliverable(link, kind) ==
  CASE kind = "Offer" -> ~link.isHost /\ ~link.remoteDescription /\ link.setting = "none"
    [] kind = "Answer" -> link.isHost /\ ~link.remoteDescription /\ link.setting = "none"
    [] kind = "ICECandidate" -> link.received < MaxCandidates
    [] OTHER -> TRUE

HandleSignalingMessage(from, kind) ==
  /\ now <= MaxTime
  /\ CASE kind = "NewSession" ->
            LET r == addConnection(connections, connectionsArray, from)
            IN  /\ connections' = r.connections
                /\ connectionsArray' = r.connectionsArray
                /\ dataChannels' = Opened(dataChannels, from)
                /\ links' = [links EXCEPT ![from] = NewLink(TRUE)]
                /\ effects' = <<>>
       [] kind = "SessionLeaving" ->
            IF connections[from]
              THEN LET r == removeConnection(connections, connectionsArray, from)
                   IN  /\ connections' = r.connections
                       /\ connectionsArray' = r.connectionsArray
                       /\ links' = [links EXCEPT ![from] = NoLink]
                       /\ effects' = <<>>
                       /\ UNCHANGED dataChannels
              ELSE /\ effects' = <<Call("TypeError", 0)>>
                   /\ UNCHANGED <<connections, connectionsArray, dataChannels, links>>
       [] OTHER ->
            IF connections[from]
              THEN /\ Deliverable(links[from], kind)
                   /\ links' = [links EXCEPT ![from] = onSignalingMessage(@, kind)]
                   /\ effects' = <<Call("onSignalingMessage", 0)>>
                   /\ UNCHANGED <<connections, connectionsArray, dataChannels>>
              ELSE LET r == addConnection(connections, connectionsArray, from)
                   IN  /\ Deliverable(NewLink(FALSE), kind)
                       /\ connections' = r.connections
                       /\ connectionsArray' = r.connectionsArray
                       /\ dataChannels' = Opened(dataChannels, from)
                       /\ links' = [links EXCEPT ![from] = onSignalingMessage(NewLink(FALSE), kind)]
                       /\ effects' = <<Call("onSignalingMessage", 0)>>
  /\ UNCHANGED <<pingRequests, now, mgrVars, pmVars, settingsVars, coreVars, playerVars, tsVars, rtcPeerIds,
                 rtcEnabled, queueVars>>

linkRest == <<now, pingRequests, mgrVars, pmVars, settingsVars, coreVars, playerVars, tsVars, connections,
              connectionsArray, rtcPeerIds, rtcEnabled, dataChannels, queueVars>>

\* The promise of peerConnection.setRemoteDescription resolves: the description is in
\* place; after an offer the queue is drained and the answer sent.
RemoteDescriptionSet(peerId) ==
  /\ connections[peerId]
  /\ links[peerId].setting # "none"
  /\ LET link == [links[peerId] EXCEPT !.remoteDescription = TRUE, !.setting = "none"]
     IN  IF links[peerId].setting = "Offer"
           THEN LET drained == setICECandidatesQueue([link EXCEPT !.draining = 1])
                IN  /\ links' = [links EXCEPT ![peerId] = drained]
                    /\ effects' = IF drained.draining = 0 THEN <<Call("sendAnswer", 0)>>
                                  ELSE <<Call("addIceCandidate", drained.added[Len(drained.added)])>>
           ELSE /\ links' = [links EXCEPT ![peerId] = link]
                /\ effects' = <<>>
  /\ UNCHANGED linkRest

\* The promise of an addIceCandidate awaited by setICECandidatesQueue() resolves.
IceCandidateAdded(peerId) ==
  /\ connections[peerId]
  /\ links[peerId].draining > 0
  /\ LET drained == setICECandidatesQueue(links[peerId])
     IN  /\ links' = [links EXCEPT ![peerId] = drained]
         /\ effects' = IF drained.draining = 0 THEN <<Call("sendAnswer", 0)>>
                       ELSE <<Call("addIceCandidate", drained.added[Len(drained.added)])>>
  /\ UNCHANGED linkRest

\* sendMessage(to, payload, type)
SendMessage(to) ==
  /\ effects' = IF to = "all" THEN sendMessageToAll(rtcPeerIds) ELSE <<sendMessageTo(to)>>
  /\ UNCHANGED <<pingRequests, now, mgrVars, pmVars, settingsVars, coreVars, playerVars, tsVars, rtcVars,
                 queueVars>>

\* The data channel of a link opens: SyncPlayWebRTCCore.onPeerConnected, then 'peer-helo'
\* reaches TimeSyncCore.onPeerConnected.
DataChannelOpen(peerId) ==
  /\ now <= MaxTime
  /\ dataChannels[peerId] = "pending"
  /\ dataChannels' = [dataChannels EXCEPT ![peerId] = "open"]
  /\ links' = IF connections[peerId] THEN [links EXCEPT ![peerId].channel = "open"] ELSE links
  /\ IF IndexOf(rtcPeerIds, peerId) >= 0
       THEN /\ effects' = <<>>
            /\ UNCHANGED <<rtcPeerIds, tsPeers, tsPeerIds>>
       ELSE /\ rtcPeerIds' = Append(rtcPeerIds, peerId)
            /\ tsPeers' = [tsPeers EXCEPT ![peerId] = onConnected(IF @.present THEN @ ELSE NewPeer)]
            /\ tsPeerIds' = IF tsPeers[peerId].present THEN tsPeerIds
                            ELSE Append(tsPeerIds, peerId)
            /\ effects' = rejectPending(tsPeers[peerId])
  /\ UNCHANGED <<pingRequests, now, mgrVars, pmVars, settingsVars, coreVars, playerVars, serverOffset,
                 activePeerId, extraTimeOffset, connections, connectionsArray, rtcEnabled,
                 queueVars>>

\* Variant: 'peer-bye' leaves the peer's source in the registry.
PeerBye_KeepSource(peerId) ==
  IF IndexOf(rtcPeerIds, peerId) < 0
    THEN /\ effects' = <<>>
         /\ UNCHANGED <<rtcPeerIds, tsPeers, tsPeerIds>>
    ELSE /\ rtcPeerIds' = Splice1(rtcPeerIds, IndexOf(rtcPeerIds, peerId))
         /\ effects' = rejectPending(tsPeers[peerId])
         /\ UNCHANGED <<tsPeers, tsPeerIds>>

\* SyncPlayWebRTCCore.onPeerDisconnected(peerId), then 'peer-bye' reaches
\* TimeSyncCore.onPeerDisconnected.
PeerBye(peerId) ==
  IF IndexOf(rtcPeerIds, peerId) < 0
    THEN /\ effects' = <<>>
         /\ UNCHANGED <<rtcPeerIds, tsPeers, tsPeerIds>>
    ELSE /\ rtcPeerIds' = Splice1(rtcPeerIds, IndexOf(rtcPeerIds, peerId))
         /\ effects' = rejectPending(tsPeers[peerId])
         /\ IF ~tsPeers[peerId].present
              THEN UNCHANGED <<tsPeers, tsPeerIds>>
              ELSE /\ tsPeers' = [tsPeers EXCEPT ![peerId] = NoPeer]
                   /\ tsPeerIds' = Splice1(tsPeerIds, IndexOf(tsPeerIds, peerId))

\* The data channel closes.
DataChannelClose(peerId) ==
  /\ now <= MaxTime
  /\ dataChannels[peerId] = "open"
  /\ dataChannels' = [dataChannels EXCEPT ![peerId] = "closed"]
  /\ links' = IF links[peerId].channel = "open"
                THEN [links EXCEPT ![peerId].channel = "closed"] ELSE links
  /\ PeerBye(peerId)
  /\ UNCHANGED <<pingRequests, now, mgrVars, pmVars, settingsVars, coreVars, playerVars, serverOffset,
                 activePeerId, extraTimeOffset, connections, connectionsArray, rtcEnabled,
                 queueVars>>

\* A data channel that never opened closes: 'close' without an earlier 'open'.
DataChannelFails(peerId) ==
  /\ now <= MaxTime
  /\ dataChannels[peerId] = "pending"
  /\ dataChannels' = [dataChannels EXCEPT ![peerId] = "closed"]
  /\ links' = IF links[peerId].channel = "connecting"
                THEN [links EXCEPT ![peerId].channel = "closed"] ELSE links
  /\ PeerBye(peerId)
  /\ UNCHANGED <<pingRequests, now, mgrVars, pmVars, settingsVars, coreVars, playerVars, serverOffset,
                 activePeerId, extraTimeOffset, connections, connectionsArray, rtcEnabled,
                 queueVars>>

(***************************************************************************)
(* TimeSyncCore: the active time source, its settings and conversions.     *)
(***************************************************************************)
timeRest == <<now, mgrVars, pmVars, settingsVars, coreVars, playerVars, rtcVars, queueVars>>

\* getTimeOffset(): the effective offset of the active source.
getTimeOffset(server, active) ==
  IF HasPeer(active)
    THEN tsPeers[active].timeOffset + tsPeers[active].peerTimeOffset + extraTimeOffset
    ELSE server + extraTimeOffset

\* setActiveDevice(deviceId), on the 'timeSyncDevice' setting
SetActiveDevice(deviceId) ==
  /\ now <= MaxTime
  /\ activePeerId' = IF IndexOf(tsPeerIds, deviceId) # 0 - 1 THEN deviceId ELSE "server"
  /\ effects' = <<Call("setActiveDevice", 0)>>
  /\ UNCHANGED <<pingRequests, timeRest, serverOffset, tsPeers, tsPeerIds, extraTimeOffset>>

\* the 'extraTimeOffset' setting changes
SetExtraTimeOffset(value) ==
  /\ now <= MaxTime
  /\ extraTimeOffset' = value
  /\ effects' = <<Call("extraTimeOffset", value)>>
  /\ UNCHANGED <<pingRequests, timeRest, serverOffset, tsPeers, tsPeerIds, activePeerId>>

\* onPeerMessage(peerId, 'time-sync-server-update'): the peer's offset to the server
PeerServerUpdate(peerId, data) ==
  /\ now <= MaxTime
  /\ IF tsPeers[peerId].present
       THEN /\ tsPeers' = [tsPeers EXCEPT ![peerId] = onTimeSyncServerUpdate(@, data)]
            /\ effects' = IF InvalidServerUpdate(data)
                            THEN <<Call("console.error: invalid time-sync-server-update", 0),
                                   Call("refresh-devices", 0)>>
                            ELSE <<Call("refresh-devices", 0)>>
       ELSE /\ effects' = <<Call("console.error: ignoring message from unknown peer", 0)>>
            /\ UNCHANGED tsPeers
  /\ UNCHANGED <<pingRequests, timeRest, serverOffset, tsPeerIds, activePeerId, extraTimeOffset>>

\* The pinger of a peer source asks for a sample: TimeSyncPeer.requestPing(), one request
\* at a time.
RequestPing(peerId) ==
  /\ now <= MaxTime
  /\ tsPeers[peerId].present
  /\ ~tsPeers[peerId].pingPending
  /\ tsPeers' = [tsPeers EXCEPT ![peerId].pingPending = TRUE, ![peerId].requestSent = now]
  /\ effects' = <<sendMessageTo(peerId)>>
  /\ pingRequests' = IF sendMessageTo(peerId).call = "dataChannel.send"
                       THEN [pingRequests EXCEPT ![peerId] = @ \cup {now}]
                       ELSE pingRequests
  /\ UNCHANGED <<timeRest, serverOffset, tsPeerIds, activePeerId, extraTimeOffset>>

\* TimeSyncCore.onPeerMessage(peerId, 'ping-response'): TimeSyncPeer.onPingResponse; sample
\* is the offset the pinger derives from the timestamps of a resolved request.
onPingResponse(peerId, valid, sample) ==
  /\ IF ~tsPeers[peerId].present
       THEN /\ effects' = <<Call("console.error: ignoring message from unknown peer", 0)>>
            /\ UNCHANGED tsPeers
     ELSE IF ~valid
       THEN /\ effects' = <<Call("console.error: invalid ping-response", 0),
                            Call("refresh-devices", 0)>>
            /\ UNCHANGED tsPeers
     ELSE IF tsPeers[peerId].pingPending
       THEN /\ tsPeers' = [tsPeers EXCEPT ![peerId].pingPending = FALSE,
                                          ![peerId].requestSent = NullTime,
                                          ![peerId].timeOffset = sample]
            /\ effects' = <<Call("resolvePingRequest", sample), Call("refresh-devices", 0)>>
     ELSE /\ effects' = <<Call("console.warn: missing promise to resolve", 0),
                          Call("refresh-devices", 0)>>
          /\ UNCHANGED tsPeers
  /\ UNCHANGED <<timeRest, serverOffset, tsPeerIds, activePeerId, extraTimeOffset>>

\* A 'ping-response' frame arrives from the peer, well-formed or not.
PingResponse(peerId, valid, sample) ==
  /\ now <= MaxTime
  /\ onPingResponse(peerId, valid, sample)
  /\ UNCHANGED pingRequests

\* The 'ping-response' to the 'ping-request' sent at requestSent arrives: the remote
\* onPingRequest echoes requestSent. onPingResponse tests that the field is set and does
\* not compare it with the request it waits for.
PingResponseTo(peerId, requestSent, sample) ==
  /\ now <= MaxTime
  /\ requestSent \in pingRequests[peerId]
  /\ pingRequests' = [pingRequests EXCEPT ![peerId] = @ \ {requestSent}]
  /\ onPingResponse(peerId, TRUE, sample)

\* The pinger of a peer source has a new estimate of the offset to the peer.
PeerTimeUpdate(peerId, timeOffset) ==
  /\ now <= MaxTime
  /\ tsPeers[peerId].present
  /\ tsPeers' = [tsPeers EXCEPT ![peerId].timeOffset = timeOffset]
  /\ effects' = <<Call("update", timeOffset)>>
  /\ UNCHANGED <<pingRequests, timeRest, serverOffset, tsPeerIds, activePeerId, extraTimeOffset>>

\* A caller converts a local instant to server time.
LocalDateToRemote(local) ==
  /\ now <= MaxTime
  /\ effects' = <<Call("localDateToRemote", localDateToRemote(serverOffset, activePeerId, local))>>
  /\ activePeerId' = ActiveAfterConversion(activePeerId)
  /\ UNCHANGED <<pingRequests, timeRest, serverOffset, tsPeers, tsPeerIds, extraTimeOffset>>

\* A caller converts a server instant to local time.
RemoteDateToLocal(remote) ==
  /\ now <= MaxTime
  /\ effects' = <<Call("remoteDateToLocal", remoteDateToLocal(serverOffset, activePeerId, remote))>>
  /\ activePeerId' = ActiveAfterConversion(activePeerId)
  /\ UNCHANGED <<pingRequests, timeRest, serverOffset, tsPeers, tsPeerIds, extraTimeOffset>>

(***************************************************************************)
(* SyncPlayQueueCore and SyncPlayQueueManager: play queue updates.         *)
(***************************************************************************)
getLastUpdateTime == IF lastUpdate # NullTime THEN lastUpdate ELSE 0

\* The item the local player is on; the model never starts local playback of another item.
getRealPlaylistItemId == NullId

IsOldUpdate_Never(u) == FALSE

IsOldUpdate_Strict(u) == lastUpdate # NullTime /\ u.LastUpdate < lastUpdate

\* this.lastUpdate && playQueueUpdate.LastUpdate.getTime() <= this.lastUpdate.getTime()
IsOldUpdate(u) == lastUpdate # NullTime /\ u.LastUpdate <= lastUpdate

\* The assignments of onPlayQueueUpdate.
ApplyUpdate(u) ==
  /\ playlist' = u.Playlist
  /\ reason' = u.Reason
  /\ lastUpdate' = u.LastUpdate
  /\ internalPlaylist' = u.Playlist
  /\ playingItemIndex' = u.PlayingItemIndex
  /\ startPositionTicks' = u.StartPositionTicks
  /\ shuffleMode' = u.ShuffleMode
  /\ repeatMode' = u.RepeatMode

\* getCurrentPlaylistItemId() once u is applied
CurrentItemOf(u) ==
  IF u.PlayingItemIndex = 0 - 1 THEN NullId
  ELSE IF u.PlayingItemIndex + 1 \in 1..Len(u.Playlist) THEN u.Playlist[u.PlayingItemIndex + 1]
  ELSE "TypeError"

\* startPlayback(apiClient), followed by scheduleReadyRequestOnPlaybackStart
startPlayback(s, u) ==
  IF u.Playlist = <<>> THEN s
  ELSE waitForEventOnce(Log(Converted(s), "localPlay", u.PlayingItemIndex),
                        "playbackstart", "startPause", NullTicks, WaitForEventDefaultTimeout)

\* Variant: playback is started without awaiting the follow request.
Reaction_PlayAtOnce(s, u) ==
  IF u.LastUpdate < u.LastUpdate THEN Log(s, "console.warn: updatePlayQueue", u.LastUpdate)
  ELSE CASE u.Reason = "NewPlaylist" ->
              IF ~followingGroupPlayback
                THEN startPlayback(Log(s, "requestSyncPlaySetIgnoreWait", 0), u)
                ELSE startPlayback(s, u)
         [] u.Reason \in {"SetCurrentItem", "NextTrack", "PreviousTrack"} ->
              IF CurrentItemOf(u) = "TypeError" THEN s
              ELSE Log(s, "localSetCurrentPlaylistItem", u.PlayingItemIndex)
         [] u.Reason = "RemoveItems" ->
              IF CurrentItemOf(u) = "TypeError" THEN Log(s, "playlistitemadd", 0)
              ELSE IF getRealPlaylistItemId # CurrentItemOf(u)
                THEN Log(Log(s, "playlistitemadd", 0), "localSetCurrentPlaylistItem",
                         u.PlayingItemIndex)
                ELSE Log(s, "playlistitemadd", 0)
         [] u.Reason \in {"MoveItem", "Queue", "QueueNext"} -> Log(s, "playlistitemadd", 0)
         [] u.Reason = "RepeatMode" -> Log(s, "localSetRepeatMode", 0)
         [] u.Reason = "ShuffleMode" -> Log(s, "localSetQueueShuffleMode", 0)
         [] OTHER -> s

\* The continuation of updatePlayQueue after onPlayQueueUpdate resolved.
Reaction(s, u) ==
  IF u.LastUpdate < u.LastUpdate THEN Log(s, "console.warn: updatePlayQueue", u.LastUpdate)
  ELSE CASE u.Reason = "NewPlaylist" ->
              IF ~followingGroupPlayback
                THEN Log(s, "requestSyncPlaySetIgnoreWait", 0)
                ELSE startPlayback(s, u)
         [] u.Reason \in {"SetCurrentItem", "NextTrack", "PreviousTrack"} ->
              IF CurrentItemOf(u) = "TypeError" THEN s
              ELSE Log(s, "localSetCurrentPlaylistItem", u.PlayingItemIndex)
         [] u.Reason = "RemoveItems" ->
              IF CurrentItemOf(u) = "TypeError" THEN Log(s, "playlistitemadd", 0)
              ELSE IF getRealPlaylistItemId # CurrentItemOf(u)
                THEN Log(Log(s, "playlistitemadd", 0), "localSetCurrentPlaylistItem",
                         u.PlayingItemIndex)
                ELSE Log(s, "playlistitemadd", 0)
         [] u.Reason \in {"MoveItem", "Queue", "QueueNext"} -> Log(s, "playlistitemadd", 0)
         [] u.Reason = "RepeatMode" -> Log(s, "localSetRepeatMode", 0)
         [] u.Reason = "ShuffleMode" -> Log(s, "localSetQueueShuffleMode", 0)
         [] OTHER -> s

\* followGroupPlayback is called by a 'NewPlaylist' update that is applied while not following.
FollowedBy(u) ==
  /\ followingGroupPlayback' = (followingGroupPlayback \/ u.Reason = "NewPlaylist")
  /\ pendingFollows' = IF u.Reason = "NewPlaylist" /\ ~followingGroupPlayback
                         THEN pendingFollows \cup {u.LastUpdate}
                         ELSE pendingFollows

UpdatePlayQueue(u) ==
  /\ now <= MaxTime
  /\ IF u.LastUpdate <= getLastUpdateTime
       THEN /\ Commit(Log(Core, "console.debug: ignoring old update", u.LastUpdate))
            /\ UNCHANGED <<queueVars, followingGroupPlayback>>
       ELSE IF u.Playlist = <<>>
         THEN IF IsOldUpdate(u)
                THEN /\ Commit(Log(Core, "console.warn: updatePlayQueue", u.LastUpdate))
                     /\ UNCHANGED <<queueVars, followingGroupPlayback>>
                ELSE /\ ApplyUpdate(u)
                     /\ Commit(Reaction(Core, u))
                     /\ FollowedBy(u)
                     /\ UNCHANGED pendingLookups
         ELSE /\ Len(waiters) + Cardinality(pendingLookups) < MaxPending
              /\ u \notin pendingLookups
              /\ pendingLookups' = pendingLookups \cup {u}
              /\ Commit(Log(Core, "getItemsForPlayback", u.LastUpdate))
              /\ UNCHANGED <<QueueView, followingGroupPlayback, pendingFollows>>
  /\ UNCHANGED <<pingRequests, now, groupInfo, syncPlayEnabledAt, readyWaiters, pmVars, settingsVars,
                 registryRest, rtcVars>>

\* getItemsForPlayback and translateItemsForPlayback of an update have answered.
LookupComplete(u) ==
  /\ u \in pendingLookups
  /\ pendingLookups' = pendingLookups \ {u}
  /\ IF IsOldUpdate(u)
       THEN /\ Commit(Log(Core, "console.warn: updatePlayQueue", u.LastUpdate))
            /\ UNCHANGED <<QueueView, followingGroupPlayback, pendingFollows>>
       ELSE /\ ApplyUpdate(u)
            /\ Commit(Reaction(Core, u))
            /\ FollowedBy(u)
  /\ UNCHANGED <<pingRequests, now, groupInfo, syncPlayEnabledAt, readyWaiters, pmVars, settingsVars,
                 registryRest, rtcVars>>

\* The queue as the play queue manager holds it.
CurrentQueue == [Playlist |-> playlist, PlayingItemIndex |-> playingItemIndex]

\* The followGroupPlayback request of the update of time t has completed: startPlayback of
\* the queue as it is now.
FollowComplete(t) ==
  /\ t \in pendingFollows
  /\ pendingFollows' = pendingFollows \ {t}
  /\ Commit(startPlayback(Core, CurrentQueue))
  /\ UNCHANGED <<pingRequests, now, groupInfo, syncPlayEnabledAt, followingGroupPlayback, readyWaiters, pmVars,
                 settingsVars, registryRest, rtcVars, QueueView, pendingLookups>>

haltGroupPlayback ==
  /\ now <= MaxTime
  /\ followingGroupPlayback
  /\ Cardinality(pendingFollows) < MaxPending
  /\ followingGroupPlayback' = FALSE
  /\ Commit(localStop(Log(Core, "requestSyncPlaySetIgnoreWait", 1)))
  /\ UNCHANGED <<pingRequests, now, groupInfo, syncPlayEnabledAt, readyWaiters, pmVars, settingsVars,
                 registryRest, rtcVars, queueVars>>

(***************************************************************************)
(* The session: joining and leaving a group, clock synchronisation, the    *)
(* group's play queue, commands and their timers.                          *)
(***************************************************************************)
SessionUpdates == {SessionQueue}

\* Pause commands for the current item, for another item, and one emitted before the join.
SessionCommands ==
  {c \in Commands : /\ c.Command = "Pause"
                    /\ c.When = 2000
                    /\ (c.EmittedAt = 1000 \/ c.PlaylistItemId = "A")}

Next ==
  \/ \E lastUpdatedAt \in EnableTimes : EnableSyncPlay(lastUpdatedAt, FALSE)
  \/ DisableSyncPlay
  \/ \E error \in BOOLEAN, timeOffset \in Offsets : ServerTimeUpdate(error, timeOffset, 0)
  \/ \E cmd \in SessionCommands : ProcessCommand(cmd, 0)
  \/ \E u \in SessionUpdates : UpdatePlayQueue(u)
  \/ \E u \in pendingLookups : LookupComplete(u)
  \/ PlaybackStart
  \/ PlaybackStop
  \/ PlayerPause
  \/ \E t \in timers : CommandTimerFires(t)
  \/ \E i \in 1..Len(waiters) : WaiterTimeout(i)
  \/ Tick

Spec == Init /\ [][Next]_vars

(***************************************************************************)
(* The command scheduler and the drift corrector of a client that has      *)
(* joined a group, is ready, has loaded the group's queue and has started  *)
(* playback (paused by the buffering-done report of startPlayback).        *)
(***************************************************************************)
JoinedSession ==
  /\ now = 0
  /\ effects = <<>>
  /\ groupInfo \in EnableTimes
  /\ syncPlayEnabledAt = groupInfo
  /\ syncPlayReady = TRUE
  /\ queuedCommand = NoCommand
  /\ followingGroupPlayback = TRUE
  /\ lastPlaybackCommand = NoCommand
  /\ readyWaiters = 0
  /\ pmSyncPlayEnabled = TRUE
  /\ pmMethods = "syncplay"
  /\ pmSaved = "original"
  /\ isPlayerActive = TRUE
  /\ paused = TRUE
  /\ playerTicks = 0
  /\ playbackRate = 1000
  /\ serverOffset \in Offsets
  /\ tsPeers = [p \in PeerIds |-> NoPeer]
  /\ pingRequests = [p \in PeerIds |-> {}]
  /\ tsPeerIds = <<>>
  /\ activePeerId = "server"
  /\ extraTimeOffset = 0
  /\ InitWebRTC
  /\ playlist = SessionQueue.Playlist
  /\ internalPlaylist = SessionQueue.Playlist
  /\ reason = SessionQueue.Reason
  /\ lastUpdate = SessionQueue.LastUpdate
  /\ playingItemIndex = SessionQueue.PlayingItemIndex
  /\ startPositionTicks = SessionQueue.StartPositionTicks
  /\ shuffleMode = SessionQueue.ShuffleMode
  /\ repeatMode = SessionQueue.RepeatMode
  /\ pendingLookups = {}
  /\ pendingFollows = {}

Joined == JoinedSession /\ InitCore

InitCmd == Joined /\ InitSettings

CmdCommands ==
  {c \in Commands : /\ c.EmittedAt = 1000
                    /\ (c.PlaylistItemId = "A" \/ (c.Command = "Pause" /\ c.When = 1000))}

RandomFor(cmd) == IF cmd.Command = "Seek" THEN RandomSample ELSE {0}

NextCmd ==
  \/ \E cmd \in CmdCommands : \E random \in RandomFor(cmd) : ProcessCommand(cmd, random)
  \/ DisableSyncPlay
  \/ PlaybackStart
  \/ PlaybackStop
  \/ PlayerUnpause
  \/ PlayerPause
  \/ PlayerPlaying
  \/ \E t \in timers : CommandTimerFires(t)
  \/ \E t \in timers : SyncTimerFires(t)
  \/ \E i \in 1..Len(waiters) : WaiterTimeout(i)
  \/ Tick

SpecCmd == InitCmd /\ [][NextCmd]_vars

(***************************************************************************)
(* The same client when a command arrives while the follow-up of the       *)
(* command before it still waits for its player event.                     *)
(***************************************************************************)
FollowUpCommands == {c \in CmdCommands : c.PlaylistItemId = "A"}

NextFollowUp ==
  \/ \E cmd \in FollowUpCommands : ProcessCommandWithin(cmd, 0, MaxWaiters + 1)
  \/ PlayerUnpause
  \/ PlayerPause
  \/ PlayerPlaying
  \/ \E t \in timers : CommandTimerFires(t)
  \/ \E t \in timers : SyncTimerFires(t)
  \/ \E i \in 1..Len(waiters) : WaiterTimeout(i)
  \/ Tick

SpecFollowUp == InitCmd /\ [][NextFollowUp]_vars

(***************************************************************************)
(* The drift corrector of the same client, under every choice of the       *)
(* correction settings.                                                    *)
(***************************************************************************)
InitDrift ==
  /\ Joined
  /\ useSpeedToSync \in BOOLEAN
  /\ useSkipToSync \in BOOLEAN
  /\ enableSyncCorrection \in BOOLEAN

DriftCommands ==
  {c \in Commands : /\ c.EmittedAt = 1000
                    /\ c.PlaylistItemId = "A"
                    /\ \/ c.Command = "Unpause"
                       \/ c.Command = "Pause" /\ c.When = 2000}

NextDrift ==
  \/ \E cmd \in DriftCommands : ProcessCommand(cmd, 0)
  \/ \E positionTicks \in PlayerPositions : TimeUpdate(positionTicks)
  \/ PlayerUnpause
  \/ PlayerPause
  \/ PlayerPlaying
  \/ PlayerWaiting
  \/ \E t \in timers : CommandTimerFires(t)
  \/ \E t \in timers : SyncTimerFires(t)
  \/ \E t \in timers : NotifyBufferingFires(t)
  \/ \E i \in 1..Len(waiters) : WaiterTimeout(i)
  \/ Tick

SpecDrift == InitDrift /\ [][NextDrift]_vars

(***************************************************************************)
(* The drift corrector under time updates at positions on both sides of    *)
(* every threshold, with a player that may have been buffering when the    *)
(* group's commands arrive.                                                *)
(***************************************************************************)
\* The playback core as constructed, with a player that may be buffering.
InitCoreBuffering ==
  /\ lastCommand = NoCommand
  /\ timers = {}
  /\ waiters = <<>>
  /\ syncEnabled = FALSE
  /\ syncAttempts = 0
  /\ lastSyncTime = 0
  /\ playerIsBuffering \in BOOLEAN

InitNudge ==
  /\ JoinedSession
  /\ InitCoreBuffering
  /\ useSpeedToSync \in BOOLEAN
  /\ useSkipToSync \in BOOLEAN
  /\ enableSyncCorrection \in BOOLEAN

NudgeCommands ==
  {c \in Commands : /\ c.EmittedAt = 1000
                    /\ c.PlaylistItemId = "A"
                    /\ c.When = 1000
                    /\ c.Command \in {"Unpause", "Stop"}}

\* The differences, in milliseconds, between the group's position and the player's when
\* the guard of an Unpause applied at time 0 has expired.
NudgeDeltas ==
  {0 - maxDelaySpeedToSync, 1 - maxDelaySpeedToSync, 0 - speedToSyncDuration,
   0 - (speedToSyncDuration \div 5), 1 - (speedToSyncDuration \div 5),
   0 - minDelaySpeedToSync, 1 - minDelaySpeedToSync,
   minDelaySkipToSync - 1, minDelaySkipToSync, speedToSyncDuration}

NudgePositions == {P0 + (enableSyncTimeout - d) * TicksPerMillisecond : d \in NudgeDeltas}

NextNudge ==
  \/ \E cmd \in NudgeCommands : ProcessCommand(cmd, 0)
  \/ \E positionTicks \in NudgePositions : TimeUpdate(positionTicks)
  \/ PlaybackStart
  \/ PlaybackStop
  \/ PlayerUnpause
  \/ PlayerPlaying
  \/ \E t \in timers : SyncTimerFires(t)
  \/ Tick

SpecNudge == InitNudge /\ [][NextNudge]_vars

\* The event loop runs a timer that is due, and time does not stop.
SpecNudgeFair ==
  /\ SpecNudge
  /\ WF_vars(Tick)
  /\ WF_vars(\E t \in timers : SyncTimerFires(t))

(***************************************************************************)
(* Time updates between commands of every kind, playback stops and starts. *)
(***************************************************************************)
QuietCommands ==
  {c \in Commands : c.EmittedAt = 1000 /\ c.PlaylistItemId = "A" /\ c.When = 1000}

NextQuiet ==
  \/ \E cmd \in QuietCommands : ProcessCommand(cmd, 0)
  \/ \E positionTicks \in PlayerPositions : TimeUpdate(positionTicks)
  \/ PlaybackStart
  \/ PlaybackStop
  \/ PlayerUnpause
  \/ PlayerPlaying
  \/ \E t \in timers : SyncTimerFires(t)
  \/ \E i \in 1..Len(waiters) : WaiterTimeout(i)
  \/ Tick

InitQuiet == JoinedSession /\ InitCoreBuffering /\ InitSettings

SpecQuiet == InitQuiet /\ [][NextQuiet]_vars

(***************************************************************************)
(* The queue mirror under play queue updates that arrive and complete in   *)
(* any order.                                                              *)
(***************************************************************************)
QueueUpdates ==
  {[LastUpdate |-> t, Playlist |-> pl, PlayingItemIndex |-> Len(pl) - 1,
    StartPositionTicks |-> 0, ShuffleMode |-> "Sorted", RepeatMode |-> "RepeatNone",
    Reason |-> r] :
     t \in 1..3, pl \in {<<>>, <<"A", "B">>},
     r \in {"NewPlaylist", "SetCurrentItem"}}

NextQueue ==
  \/ \E u \in QueueUpdates : UpdatePlayQueue(u)
  \/ \E u \in pendingLookups : LookupComplete(u)
  \/ \E t \in pendingFollows : FollowComplete(t)
  \/ haltGroupPlayback
  \/ PlaybackStart

SpecQueue == Init /\ [][NextQueue]_vars

(***************************************************************************)
(* The queue mirror across groups: updates of the server with any current  *)
(* item of their playlist, and shutdowns.                                   *)
(***************************************************************************)
IndexUpdates ==
  {[LastUpdate |-> t, Playlist |-> pl, PlayingItemIndex |-> i,
    StartPositionTicks |-> 0, ShuffleMode |-> "Sorted", RepeatMode |-> "RepeatNone",
    Reason |-> r] :
     t \in 1..2, pl \in {<<>>, <<"A">>, <<"A", "B">>}, i \in {0 - 1, 0, 1},
     r \in {"SetCurrentItem"}}

\* The server names an item of the playlist it sends, or none.
ServerUpdates == {u \in IndexUpdates : u.PlayingItemIndex < Len(u.Playlist)}

NextIndex ==
  \/ \E lastUpdatedAt \in EnableTimes : EnableSyncPlay(lastUpdatedAt, FALSE)
  \/ DisableSyncPlay
  \/ \E u \in ServerUpdates : UpdatePlayQueue(u)
  \/ \E u \in pendingLookups : LookupComplete(u)

SpecIndex == Init /\ [][NextIndex]_vars

(***************************************************************************)
(* The peer mesh and the time-sync registry while groups are joined and    *)
(* left.                                                                   *)
(***************************************************************************)
SignalingKinds == {"NewSession", "SessionLeaving", "Offer"}

NextMesh ==
  \/ \E lastUpdatedAt \in EnableTimes, enableWebRTC \in BOOLEAN :
       EnableSyncPlay(lastUpdatedAt, enableWebRTC)
  \/ DisableSyncPlay
  \/ \E from \in PeerIds, kind \in SignalingKinds : HandleSignalingMessage(from, kind)
  \/ \E to \in PeerIds \cup {"all"} : SendMessage(to)
  \/ \E peerId \in PeerIds : DataChannelOpen(peerId)
  \/ \E peerId \in PeerIds : DataChannelClose(peerId)

SpecMesh == Init /\ [][NextMesh]_vars

(***************************************************************************)
(* The signaling of the peer links: sessions come and go, descriptions and *)
(* ICE candidates arrive, and the promises of the peer connection resolve. *)
(***************************************************************************)
LinkSignalingKinds == {"NewSession", "SessionLeaving", "Offer", "Answer", "ICECandidate"}

NextIce ==
  \/ \E from \in PeerIds, kind \in LinkSignalingKinds : HandleSignalingMessage(from, kind)
  \/ \E peerId \in PeerIds : RemoteDescriptionSet(peerId)
  \/ \E peerId \in PeerIds : IceCandidateAdded(peerId)

SpecIce == Init /\ [][NextIce]_vars

(***************************************************************************)
(* The pingers of the peer sources: requests go out, responses arrive, and *)
(* data channels open and close in between.                                *)
(***************************************************************************)
NextPing ==
  \/ \E from \in PeerIds : HandleSignalingMessage(from, "NewSession")
  \/ \E peerId \in PeerIds : DataChannelOpen(peerId)
  \/ \E peerId \in PeerIds : DataChannelClose(peerId)
  \/ \E peerId \in PeerIds : RequestPing(peerId)
  \/ \E peerId \in PeerIds, valid \in BOOLEAN, sample \in PeerOffsets :
       PingResponse(peerId, valid, sample)

SpecPing == Init /\ [][NextPing]_vars

(***************************************************************************)
(* The pingers while time passes: a response may echo the request that is  *)
(* pending or an earlier one.                                              *)
(***************************************************************************)
RequestTimes == {0, TickMs}

NextPong ==
  \/ \E from \in PeerIds : HandleSignalingMessage(from, "NewSession")
  \/ \E peerId \in PeerIds : DataChannelOpen(peerId)
  \/ \E peerId \in PeerIds : DataChannelClose(peerId)
  \/ \E peerId \in PeerIds : RequestPing(peerId)
  \/ \E peerId \in PeerIds, requestSent \in RequestTimes, sample \in PeerOffsets :
       PingResponseTo(peerId, requestSent, sample)
  \/ Tick

SpecPong == Init /\ [][NextPong]_vars

(***************************************************************************)
(* The time-sync registry: peers come and go, the user selects the source  *)
(* and the extra offset, and callers convert instants.                     *)
(***************************************************************************)
NextTime ==
  \/ \E from \in PeerIds : HandleSignalingMessage(from, "NewSession")
  \/ \E peerId \in PeerIds : DataChannelOpen(peerId)
  \/ \E peerId \in PeerIds : DataChannelClose(peerId)
  \/ \E deviceId \in PeerIds \cup {"server"} : SetActiveDevice(deviceId)
  \/ \E value \in ExtraTimeOffsets : SetExtraTimeOffset(value)
  \/ \E peerId \in PeerIds, timeOffset \in PeerServerOffsets :
       PeerServerUpdate(peerId, Frame(timeOffset, 0))
  \/ \E peerId \in PeerIds, timeOffset \in PeerOffsets : PeerTimeUpdate(peerId, timeOffset)
  \/ \E timeOffset \in Offsets : ServerTimeUpdate(FALSE, timeOffset, 0)
  \/ \E local \in Instants : LocalDateToRemote(local)
  \/ \E remote \in Instants : RemoteDateToLocal(remote)

SpecTime == Init /\ [][NextTime]_vars

(***************************************************************************)
(* Frames of peers that report their offset to the server, well-formed or  *)
(* not, while peers join and leave the mesh.                               *)
(***************************************************************************)
PeerPings == {20}

Frames ==
  {NoData} \cup {Frame(timeOffset, ping) : timeOffset \in PeerServerOffsets \cup {Null, Undefined},
                                           ping \in PeerPings \cup {Null, Undefined}}

NextFrames ==
  \/ \E from \in PeerIds : HandleSignalingMessage(from, "NewSession")
  \/ \E peerId \in PeerIds : DataChannelOpen(peerId)
  \/ \E peerId \in PeerIds : DataChannelClose(peerId)
  \/ \E peerId \in PeerIds, data \in Frames : PeerServerUpdate(peerId, data)
  \/ \E deviceId \in PeerIds \cup {"server"} : SetActiveDevice(deviceId)

SpecFrames == Init /\ [][NextFrames]_vars

(***************************************************************************)
(* The registry of peer sources while data channels open, close and fail,  *)
(* groups are joined and left, and frames of known and unknown peers       *)
(* arrive.                                                                 *)
(***************************************************************************)
NextRegistry ==
  \/ \E lastUpdatedAt \in EnableTimes : EnableSyncPlay(lastUpdatedAt, TRUE)
  \/ DisableSyncPlay
  \/ \E from \in PeerIds, kind \in {"NewSession", "SessionLeaving"} :
       HandleSignalingMessage(from, kind)
  \/ \E peerId \in PeerIds : DataChannelOpen(peerId)
  \/ \E peerId \in PeerIds : DataChannelClose(peerId)
  \/ \E peerId \in PeerIds : DataChannelFails(peerId)
  \/ \E peerId \in PeerIds, timeOffset \in PeerServerOffsets :
       PeerServerUpdate(peerId, Frame(timeOffset, 0))

SpecRegistry == Init /\ [][NextRegistry]_vars

(***************************************************************************)
(* The server clock is updated while peers join and leave the mesh.        *)
(***************************************************************************)
NextBroadcast ==
  \/ \E lastUpdatedAt \in EnableTimes : EnableSyncPlay(lastUpdatedAt, TRUE)
  \/ \E from \in PeerIds, kind \in {"NewSession", "SessionLeaving"} :
       HandleSignalingMessage(from, kind)
  \/ \E peerId \in PeerIds : DataChannelOpen(peerId)
  \/ \E peerId \in PeerIds : DataChannelClose(peerId)
  \/ \E error \in BOOLEAN, timeOffset \in Offsets : ServerTimeUpdate(error, timeOffset, 0)

SpecBroadcast == Init /\ [][NextBroadcast]_vars

(***************************************************************************)
(* Properties of the command scheduler.                                    *)
(***************************************************************************)
\* The timers the handle scheduledCommandTimeout has been given and that are still armed.
ScheduledCommandTimers == {t \in timers : t.kind \in CommandTimerKinds}

\* C1: after any sequence of applied commands and timer firings at most one
\* scheduled-command timer is armed, and it is the one the handle refers to: every
\* schedule operation cancels the previous timer before it arms a new one.
C1_AtMostOneScheduledCommand ==
  /\ Cardinality(ScheduledCommandTimers) <= 1
  /\ \A t \in ScheduledCommandTimers : t.held

\* A command has just replaced a pending one: its timer was cancelled and a new one armed.
C1_Witness ==
  /\ Cardinality(ScheduledCommandTimers) = 1
  /\ \E i \in 1..Len(effects) : effects[i] = Call("clearTimeout(scheduledCommandTimeout)", 1)
  /\ Called(effects, "setTimeout")

\* A step that has to cancel the pending scheduled command: the session is disabled,
\* playback stops, or a new command is applied.
Cancelling ==
  \/ syncPlayEnabledAt # NullTime /\ syncPlayEnabledAt' = NullTime
  \/ isPlayerActive /\ ~isPlayerActive'
  \/ lastCommand' # lastCommand /\ lastCommand' # NoCommand

\* The step cancels every pending scheduled-command timer.
CancelsPending ==
  \E i \in 1..Len(effects') :
     effects'[i] = Call("clearTimeout(scheduledCommandTimeout)",
                        Cardinality(ScheduledCommandTimers))

\* C2: a pending scheduled command is cancelled when a new command arrives, when the
\* session is disabled and when playback stops, so that its timer never fires.
C2_PendingCommandCancelled ==
  [][Cancelling /\ ScheduledCommandTimers # {} => CancelsPending]_vars

\* processCommand(cmd) hands cmd to applyCommand.
Reaches(cmd) ==
  /\ isSyncPlayEnabled
  /\ cmd.EmittedAt >= syncPlayEnabledAt
  /\ syncPlayReady
  /\ isPlayerActive
  /\ cmd.PlaylistItemId = getCurrentPlaylistItemId

\* A step in which applyCommand receives the command it applied last.
DuplicateStep(cmd) ==
  /\ Reaches(cmd)
  /\ IsDuplicate(lastCommand, ParseCommand(cmd))
  /\ \E random \in RandomSample : ProcessCommand(cmd, random)

WhenLocal(cmd) == remoteDateToLocal(serverOffset, activePeerId, cmd.When)

\* C3: a duplicate of the last command whose time is still to come arms no timer, clears
\* no timer, calls no player primitive and leaves lastCommand and syncEnabled unchanged.
C3_DuplicateFutureIgnored ==
  [][\A cmd \in Commands :
       DuplicateStep(cmd) /\ WhenLocal(cmd) > now =>
         /\ Calls(effects') = <<>>
         /\ UNCHANGED <<lastCommand, timers, syncEnabled, waiters, playerVars>>]_vars

\* A duplicate has just been found already scheduled, its timer still pending.
C3_Witness ==
  /\ Called(effects, "console.debug: command already scheduled")
  /\ \E t \in ScheduledCommandTimers : t.due > now
  /\ lastCommand # NoCommand

Rescheduled(log) == Called(log, "clearTimeout(scheduledCommandTimeout)")

\* C4: a duplicate of the last command whose time has passed re-schedules the command
\* exactly when the player has diverged from it: Unpause iff not playing, Pause iff playing
\* or at another position, Stop iff playing, Seek iff playing or at another position.
\* Without divergence a Seek only reports buffering done, and the other commands do nothing.
C4_DuplicatePastCorrects ==
  [][\A cmd \in Commands :
       DuplicateStep(cmd) /\ WhenLocal(cmd) <= now =>
         LET diverged ==
               CASE cmd.Command = "Unpause" -> paused
                 [] cmd.Command = "Pause" -> ~paused \/ playerTicks # cmd.PositionTicks
                 [] cmd.Command = "Stop" -> ~paused
                 [] cmd.Command = "Seek" -> ~paused \/ playerTicks # cmd.PositionTicks
         IN  /\ Rescheduled(effects') <=> diverged
             /\ ~diverged /\ cmd.Command = "Seek" =>
                  /\ Calls(effects') = <<Call("requestSyncPlayBuffering", 1)>>
                  /\ UNCHANGED <<coreVars, playerVars>>
             /\ ~diverged /\ cmd.Command # "Seek" =>
                  /\ Calls(effects') = <<>>
                  /\ UNCHANGED <<coreVars, playerVars>>]_vars

\* A duplicate Pause whose time has passed has just been re-scheduled.
C4_Witness ==
  /\ Called(effects, "console.debug: duplicate command received")
  /\ Rescheduled(effects)
  /\ lastCommand.Command = "Pause"

(***************************************************************************)
(* Properties of the drift corrector.                                      *)
(***************************************************************************)
\* C5: while syncEnabled is false and the last command is Unpause, a time update changes
\* neither the playback rate nor the position, arms no timer and leaves syncAttempts alone.
C5_NoCorrectionWhileSyncDisabled ==
  [][(/\ ~syncEnabled
      /\ lastCommand.Command = "Unpause"
      /\ \E positionTicks \in PlayerPositions : TimeUpdate(positionTicks)) =>
       /\ Calls(effects') = <<>>
       /\ UNCHANGED <<timers, syncAttempts, playbackRate, syncEnabled>>]_vars

\* A time update has just passed the rate limit with correction suspended, the player
\* more than minDelaySkipToSync away from the group's position.
C5_Witness ==
  /\ ~syncEnabled
  /\ lastCommand.Command = "Unpause"
  /\ isPlayerActive
  /\ ~playerIsBuffering
  /\ enableSyncCorrection
  /\ useSkipToSync
  /\ lastSyncTime = now
  /\ now > 0
  /\ effects = <<>>
  /\ Abs(estimateCurrentTicks(Core, lastCommand.PositionTicks, lastCommand.When, now)
           - playerTicks) >= minDelaySkipToSync * TicksPerMillisecond

(***************************************************************************)
(* Properties of the queue mirror.                                         *)
(***************************************************************************)
\* The calls that act on the local player or its queue.
QueuePlayerCalls ==
  {"localPlay", "localSetCurrentPlaylistItem", "playlistitemadd", "localSetRepeatMode",
   "localSetQueueShuffleMode", "requestSyncPlaySetIgnoreWait", "getItemsForPlayback",
   "localPause", "localStop", "localSeek", "localUnpause"}

\* C6: a play queue update whose LastUpdate is not after the stored lastUpdate, on
\* arrival or when its item lookup completes, changes nothing of the queue view and
\* triggers no action on the local player.
C6_OldQueueUpdateIgnored ==
  [][\A u \in QueueUpdates :
       (/\ lastUpdate # NullTime
        /\ u.LastUpdate <= lastUpdate
        /\ UpdatePlayQueue(u) \/ LookupComplete(u)) =>
         /\ UNCHANGED <<QueueView, followingGroupPlayback>>
         /\ \A i \in 1..Len(effects') : effects'[i].call \notin QueuePlayerCalls]_vars

\* An update found old when its lookup completed: a later one was applied meanwhile.
C6_Witness ==
  /\ \E i \in 1..Len(effects) :
        /\ effects[i].call = "console.warn: updatePlayQueue"
        /\ effects[i].arg <= lastUpdate
  /\ playlist # <<>>

(***************************************************************************)
(* Properties of leaving a group.                                          *)
(***************************************************************************)
PeerSources == {p \in PeerIds : tsPeers[p].present}
Links == {p \in PeerIds : connections[p]}
PlaybackTimers == {t \in timers : t.kind \in CommandTimerKinds \cup SyncTimerKinds}

\* C7: when disableSyncPlay has run, the time-sync registry holds no peer source, the
\* mesh holds no link, and no scheduled-command, sync-guard or rate-restore timer is
\* armed.
C7_DisableTearsDown ==
  [][DisableSyncPlay =>
       /\ PeerSources' = {}
       /\ tsPeerIds' = <<>>
       /\ Links' = {}
       /\ connectionsArray' = <<>>
       /\ PlaybackTimers' = {}]_vars

(***************************************************************************)
(* Properties of the session.                                              *)
(***************************************************************************)
\* What processCommand writes to the console, one line for each command it is given.
ProcessCommandLogs ==
  {"console.debug: SyncPlay not enabled, ignoring command",
   "console.debug: ignoring old command", "console.debug: SyncPlay not ready, queued command",
   "console.debug: no active player", "console.warn: playlist item does not match",
   "console.log: SyncPlay will"}

Processed(log) == Len(SelectSeq(log, LAMBDA c : c.call \in ProcessCommandLogs))

SchedulerAndPlayer == <<lastCommand, timers, syncEnabled, waiters, playerVars>>

\* C8: a command that arrives while SyncPlay is enabled and not ready is stored in
\* queuedCommand and not applied; the step that makes the session ready processes the
\* stored command exactly once and clears queuedCommand; no command is stored while
\* the session is ready, and a later time-sync update processes none.
C8_QueuedCommandAppliedOnce ==
  /\ [][\A cmd \in SessionCommands :
          (/\ isSyncPlayEnabled
           /\ ~syncPlayReady
           /\ cmd.EmittedAt >= syncPlayEnabledAt
           /\ ProcessCommand(cmd, 0)) =>
            /\ queuedCommand' = ParseCommand(cmd)
            /\ Calls(effects') = <<>>
            /\ UNCHANGED <<SchedulerAndPlayer, lastPlaybackCommand, syncPlayReady>>]_vars
  /\ [][(~syncPlayReady /\ syncPlayReady' /\ queuedCommand # NoCommand) =>
          /\ queuedCommand' = NoCommand
          /\ Processed(effects') = 1
          /\ lastPlaybackCommand' = queuedCommand]_vars
  /\ [](syncPlayReady => queuedCommand = NoCommand)
  /\ [][(syncPlayReady /\ \E error \in BOOLEAN, timeOffset \in Offsets :
                            ServerTimeUpdate(error, timeOffset, 0)) =>
          /\ Processed(effects') = 0
          /\ UNCHANGED <<SchedulerAndPlayer, lastPlaybackCommand, queuedCommand>>]_vars

\* The session has just become ready and has scheduled the command it had stored.
C8_Witness ==
  /\ syncPlayReady
  /\ Called(effects, "broadcastMessage")
  /\ Called(effects, "console.log: SyncPlay will")
  /\ Called(effects, "setTimeout")
  /\ queuedCommand = NoCommand
  /\ lastCommand # NoCommand

\* C9: syncPlayReady becomes true only in a successful update of the server clock that
\* resolves the promises of the enableSyncPlay calls made since it last became true,
\* so at most once per enableSyncPlay; the first successful update after
\* enableSyncPlay makes it true; a failed update leaves it as it is.
C9_ReadyOncePerEnable ==
  /\ [][(~syncPlayReady /\ syncPlayReady') =>
          /\ readyWaiters > 0
          /\ readyWaiters' = 0
          /\ \E timeOffset \in Offsets : ServerTimeUpdate(FALSE, timeOffset, 0)]_vars
  /\ [](syncPlayReady => readyWaiters = 0)
  /\ [][(readyWaiters > 0 /\ \E timeOffset \in Offsets : ServerTimeUpdate(FALSE, timeOffset, 0)) =>
          syncPlayReady']_vars
  /\ [][(\E timeOffset \in Offsets : ServerTimeUpdate(TRUE, timeOffset, 0)) =>
          UNCHANGED <<syncPlayReady, readyWaiters>>]_vars

\* A successful update of the server clock has just made an enabled session ready.
C9_Witness ==
  /\ syncPlayReady
  /\ isSyncPlayEnabled
  /\ readyWaiters = 0
  /\ Len(effects) = 1
  /\ effects[1].call = "broadcastMessage"

\* C10: processCommand drops a command, raising no error and changing neither the
\* scheduler (lastCommand, armed timers, syncEnabled) nor the player, when SyncPlay is
\* not enabled, when the command was emitted before syncPlayEnabledAt, or when its
\* PlaylistItemId is not the queue's current playlist item id.
C10_DroppedCommandsChangeNothing ==
  [][\A cmd \in SessionCommands :
       (/\ \/ ~isSyncPlayEnabled
           \/ cmd.EmittedAt < syncPlayEnabledAt
           \/ cmd.PlaylistItemId # getCurrentPlaylistItemId
        /\ ProcessCommand(cmd, 0)) =>
         /\ Calls(effects') = <<>>
         /\ UNCHANGED SchedulerAndPlayer]_vars

\* A command for another item than the current one has been dropped by a ready session
\* with an active player.
C10_Witness ==
  /\ Called(effects, "console.warn: playlist item does not match")
  /\ isPlayerActive
  /\ syncPlayReady

(***************************************************************************)
(* Properties of the time-sync registry.                                   *)
(***************************************************************************)
\* The selected peer is no longer in the registry.
StaleSource == activePeerId # "server" /\ ~HasPeer(activePeerId)

\* localDateToRemote followed by remoteDateToLocal, as two successive calls.
RoundTrip(t) ==
  remoteDateToLocal(serverOffset, ActiveAfterConversion(activePeerId),
                    localDateToRemote(serverOffset, activePeerId, t))

\* C11: in every registry state (the server active, a connected peer active, a peer
\* active that has disconnected since) and for every extraTimeOffset,
\* remoteDateToLocal(localDateToRemote(t)) = t.
C11_RoundTripIdentity == \A t \in Instants : RoundTrip(t) = t

\* C12: in every registry state localDateToRemote(t) - t is the effective offset that
\* getTimeOffset() returns, so extraTimeOffset is applied once in every conversion.
C12_EffectiveOffset ==
  \A t \in Instants :
    localDateToRemote(serverOffset, activePeerId, t) - t = getTimeOffset(serverOffset, activePeerId)

\* The number of fallback steps of a conversion.
RECURSIVE FallbackSteps(_)
FallbackSteps(active) ==
  IF active # "server" /\ ~HasPeer(active) THEN 1 + FallbackSteps("server") ELSE 0

\* C13: a conversion called while the selected peer is gone makes 'server' the active
\* source and returns what the conversion returns with the server as source; it takes
\* at most one fallback step; the active source only ever becomes 'server' or a peer
\* that is connected when it is selected.
C13_FallbackToServer ==
  /\ [][\A t \in Instants :
          (StaleSource /\ LocalDateToRemote(t)) =>
            /\ activePeerId' = "server"
            /\ effects' = <<Call("localDateToRemote", localDateToRemote(serverOffset, "server", t))>>]_vars
  /\ [][\A t \in Instants :
          (StaleSource /\ RemoteDateToLocal(t)) =>
            /\ activePeerId' = "server"
            /\ effects' = <<Call("remoteDateToLocal", remoteDateToLocal(serverOffset, "server", t))>>]_vars
  /\ [](FallbackSteps(activePeerId) <= 1)
  /\ [][activePeerId' # activePeerId =>
          activePeerId' = "server" \/ IndexOf(tsPeerIds, activePeerId') # 0 - 1]_vars

(***************************************************************************)
(* Properties of scheduling.                                               *)
(***************************************************************************)
SyncTimers == {t \in timers : t.kind \in SyncTimerKinds}

\* C14: a step that schedules a command cancels every armed sync-guard and
\* rate-restore timer and sets the playback rate to 1.0 before it arms or executes;
\* after it syncEnabled is false, the rate is 1.0 and no rate-restore timer is armed.
C14_ScheduleCancelsNudge ==
  [][Rescheduled(effects') =>
       /\ \E i \in 1..Len(effects') :
            /\ effects'[i] = Call("clearTimeout(syncTimeout)", Cardinality(SyncTimers))
            /\ effects'[i + 1] = Call("setPlaybackRate", 1000)
            /\ \A j \in 1..(i - 1) :
                 effects'[j].call \in Console \cup {"clearTimeout(scheduledCommandTimeout)"}
       /\ ~syncEnabled'
       /\ playbackRate' = 1000
       /\ \A t \in SyncTimers' : t.kind = "syncGuard" /\ t.held /\ t.due = now + enableSyncTimeout]_vars

\* A Pause command has just cancelled a rate nudge that was in flight.
C14_Witness ==
  /\ \E i \in 1..Len(effects) : effects[i] = Call("clearTimeout(syncTimeout)", 1)
  /\ syncAttempts > 0
  /\ playbackRate = 1000
  /\ SyncTimers = {}
  /\ lastCommand.Command = "Pause"
  /\ Called(effects, "localPause")
  /\ ~useSkipToSync


\* The player primitive a scheduled Pause, Stop or Seek executes, and the timer kind it arms.
PrimitiveOf(command) ==
  CASE command = "Pause" -> "localPause"
    [] command = "Stop" -> "localStop"
    [] command = "Seek" -> "localSeek"

TimerKindOf(command) ==
  CASE command = "Pause" -> "pause"
    [] command = "Stop" -> "stop"
    [] command = "Seek" -> "seek"

LocalPrimitives == {"localUnpause", "localPause", "localSeek", "localStop"}

CallsPrimitive(log) == \E i \in 1..Len(log) : log[i].call \in LocalPrimitives

\* A step in which a schedule operation ran for a Pause, Stop or Seek: every schedule
\* operation starts with clearScheduledCommand, and applyCommand has recorded the command.
SchedulesLater ==
  /\ Rescheduled(effects')
  /\ lastCommand' # NoCommand
  /\ lastCommand'.Command \in {"Pause", "Stop", "Seek"}

\* C15: a Pause, Stop or Seek whose local time is still to come calls no player primitive
\* while it is scheduled and arms exactly one single-shot timer, due at that local time,
\* whose firing executes the primitive; one whose local time has been reached executes
\* the primitive at once and leaves no scheduled-command timer armed.
C15_FutureArmsPastExecutes ==
  /\ [][SchedulesLater /\ WhenLocal(lastCommand') > now =>
          /\ ~CallsPrimitive(effects')
          /\ Called(effects', "setTimeout")
          /\ \A i \in 1..Len(effects') :
               effects'[i].call = "setTimeout" => effects'[i].arg = WhenLocal(lastCommand') - now
          /\ \E t \in timers' :
               /\ {u \in timers' : u.kind \in CommandTimerKinds} = {t}
               /\ t.kind = TimerKindOf(lastCommand'.Command)
               /\ t.due = WhenLocal(lastCommand')
               /\ t.held]_vars
  /\ [][SchedulesLater /\ WhenLocal(lastCommand') <= now =>
          /\ Called(effects', PrimitiveOf(lastCommand'.Command))
          /\ ~Called(effects', "setTimeout")
          /\ {u \in timers' : u.kind \in CommandTimerKinds} = {}]_vars
  /\ [][\A t \in timers :
          CommandTimerFires(t) /\ t.kind # "unpause" /\ isPlayerActive =>
            /\ \E c \in {"Pause", "Stop", "Seek"} :
                 t.kind = TimerKindOf(c) /\ Called(effects', PrimitiveOf(c))
            /\ t \notin timers'
            /\ {u \in timers' : u.kind \in CommandTimerKinds} = {}]_vars

\* A future Pause was armed without touching the player, and its timer has now fired and paused.
C15_Witness ==
  /\ lastCommand.Command = "Pause"
  /\ WhenLocal(lastCommand) = now
  /\ Called(effects, "localPause")
  /\ ~Rescheduled(effects)
  /\ ScheduledCommandTimers = {}


Arrivals(n) == [i \in 1..n |-> i]

\* C16: on every link the candidates that arrive before the remote description is in place
\* are queued, and once it has been applied and the queue handled, every candidate received
\* has been added, in arrival order, and the queue is empty.
C16_QueuedThenAddedInOrder ==
  \A p \in PeerIds :
    connections[p] =>
      /\ ~links[p].remoteDescription =>
           links[p].added = <<>> /\ links[p].iceCandidates = Arrivals(links[p].received)
      /\ links[p].remoteDescription /\ links[p].draining = 0 =>
           links[p].iceCandidates = <<>> /\ links[p].added = Arrivals(links[p].received)
      /\ \A i, j \in 1..Len(links[p].added) :
           i < j => links[p].added[i] < links[p].added[j]


\* C17: a SessionLeaving message from a peer without a link raises no error and leaves
\* connections and connectionsArray as they are, and sendMessage to a peer without a link
\* sends nothing.
C17_UnknownPeerIgnored ==
  [][\A p \in PeerIds :
       ~connections[p] =>
         /\ HandleSignalingMessage(p, "SessionLeaving") =>
              /\ ~Called(effects', "TypeError")
              /\ UNCHANGED <<connections, connectionsArray>>
         /\ SendMessage(p) => ~Called(effects', "dataChannel.send")]_vars


PendingPing(p) == tsPeers[p].present /\ tsPeers[p].pingPending

C19_OriginalsRestored ==
  /\ ~isSyncPlayEnabled => pmMethods = "original" /\ ~pmSyncPlayEnabled
  /\ pmSaved \in {"undefined", "original"}
  /\ pmSyncPlayEnabled => pmMethods = "syncplay" /\ pmSaved = "original"

\* SyncPlay was enabled twice in a row and then disabled: the originals are back.
C19_Witness ==
  /\ ~isSyncPlayEnabled
  /\ readyWaiters >= 2
  /\ pmMethods = "original"
  /\ pmSaved = "original"


C21_GroupInfoNullWhenDisabled == ~isSyncPlayEnabled => getGroupInfo = NullTime


(***************************************************************************)
(* Properties of the forced seek.                                          *)
(***************************************************************************)
\* C22: a duplicate Seek whose time has passed and from which the player has diverged is
\* re-scheduled to PositionTicks + j * 10000 ticks for an integer j in [-50, 50], and this
\* target always differs from PositionTicks.
C22_ForcedSeekJitter ==
  [][\A cmd \in CmdCommands :
       (/\ cmd.Command = "Seek"
        /\ DuplicateStep(cmd)
        /\ WhenLocal(cmd) <= now
        /\ Rescheduled(effects')) =>
         \A i \in 1..Len(effects') :
           effects'[i].call = "localSeek" =>
             /\ \E j \in RandomOffsets :
                  effects'[i].arg = cmd.PositionTicks + j * TicksPerMillisecond
             /\ effects'[i].arg # cmd.PositionTicks]_vars


(***************************************************************************)
(* Properties of the Unpause, Pause and Seek primitives.                   *)
(***************************************************************************)
\* A step in which scheduleUnpause ran.
SchedulesUnpause ==
  /\ Rescheduled(effects')
  /\ lastCommand' # NoCommand
  /\ lastCommand'.Command = "Unpause"

\* The position the group has reached at the time of the step.
ServerPosition(command) ==
  Num(command.PositionTicks)
    + (localDateToRemote(serverOffset, activePeerId, now) - command.When) * TicksPerMillisecond

SeeksOf(log) == SelectSeq(log, LAMBDA c : c.call = "localSeek")

UnpauseWaiters == SelectSeq(waiters, LAMBDA w : w.event = "unpause")

SyncGuards == {t \in timers : t.kind = "syncGuard"}

\* C23: an Unpause whose local time has passed unpauses at once and waits for the next
\* 'unpause' event, on which it seeks exactly once to PositionTicks plus the ticks elapsed
\* on the server between When and the scheduling; syncEnabled becomes true
\* maxDelaySpeedToSync / 2 ms after the scheduling, not before, unless another command
\* is scheduled first.
C23_PastUnpauseCatchesUp ==
  /\ [][SchedulesUnpause /\ WhenLocal(lastCommand') <= now =>
          /\ Calls(effects')[Len(Calls(effects'))] = Call("setTimeout", maxDelaySpeedToSync \div 2)
          /\ Called(effects', "localUnpause")
          /\ SeeksOf(effects') = <<>>
          /\ ~paused'
          /\ waiters' = Append(waiters, [event |-> "unpause", then |-> "seek",
                                         pos |-> ServerPosition(lastCommand'),
                                         due |-> NoTimeout])
          /\ ScheduledCommandTimers' = {}
          /\ ~syncEnabled'
          /\ \E t \in timers' :
               /\ SyncGuards' = {t}
               /\ t.held
               /\ t.due = now + (maxDelaySpeedToSync \div 2)]_vars
  /\ [][PlayerUnpause =>
          /\ SeeksOf(effects') = [i \in 1..Len(UnpauseWaiters) |->
                                    Call("localSeek", UnpauseWaiters[i].pos)]
          /\ UnpauseWaiters' = <<>>]_vars
  /\ [][\A t \in SyncGuards : SyncTimerFires(t) => syncEnabled' /\ now = t.due]_vars
  /\ [](\A t \in SyncGuards : t.held => ~syncEnabled)

\* The player has just reported 'unpause' after an Unpause that was already due when it
\* was scheduled: it was sent to a position past PositionTicks, and correction is still
\* suspended with the guard timer armed.
C23_Witness ==
  /\ lastCommand.Command = "Unpause"
  /\ Len(effects) = 1
  /\ effects[1].call = "localSeek"
  /\ effects[1].arg > lastCommand.PositionTicks
  /\ ~paused
  /\ ~syncEnabled
  /\ \E t \in SyncGuards : t.held /\ t.due > now


UnpauseTimers == {t \in timers : t.kind = "unpause"}

\* C24: an Unpause whose local time is still to come seeks to PositionTicks at once exactly
\* when the player is ahead of PositionTicks by more than minDelaySkipToSync ms, and arms
\* its timer without unpausing; the player is unpaused when the timer fires, and
\* syncEnabled stays false from the scheduling until maxDelaySpeedToSync / 2 ms after
\* the firing.
C24_FutureUnpausePreSeeks ==
  /\ [][SchedulesUnpause /\ WhenLocal(lastCommand') > now =>
          /\ SeeksOf(effects') =
               IF playerTicks - Num(lastCommand'.PositionTicks)
                    > minDelaySkipToSync * TicksPerMillisecond
                 THEN <<Call("localSeek", lastCommand'.PositionTicks)>>
                 ELSE <<>>
          /\ ~Called(effects', "localUnpause")
          /\ paused' = paused
          /\ ~syncEnabled'
          /\ SyncGuards' = {}
          /\ \E t \in timers' :
               /\ ScheduledCommandTimers' = {t}
               /\ t.kind = "unpause"
               /\ t.held
               /\ t.due = WhenLocal(lastCommand')]_vars
  /\ [][\A t \in UnpauseTimers :
          CommandTimerFires(t) /\ isPlayerActive =>
            /\ now = t.due
            /\ Calls(effects') = <<Call("localUnpause", 0),
                                   Call("setTimeout", maxDelaySpeedToSync \div 2)>>
            /\ ~paused'
            /\ ~syncEnabled'
            /\ \E g \in timers' :
                 /\ {u \in SyncGuards' : u.held} = {g}
                 /\ g.due = now + (maxDelaySpeedToSync \div 2)]_vars
  /\ [](\A t \in UnpauseTimers : t.held => ~syncEnabled)
  /\ [][~syncEnabled /\ syncEnabled' => \E t \in timers : SyncTimerFires(t) /\ now = t.due]_vars

\* A future Unpause has just been scheduled with the player more than minDelaySkipToSync
\* ahead: the player was sent back to PositionTicks and waits, paused, for the timer.
C24_Witness ==
  /\ lastCommand.Command = "Unpause"
  /\ Rescheduled(effects)
  /\ SeeksOf(effects) = <<Call("localSeek", lastCommand.PositionTicks)>>
  /\ playerTicks = lastCommand.PositionTicks
  /\ paused
  /\ ~syncEnabled
  /\ \E t \in UnpauseTimers : t.held /\ t.due > now


\* A step in which the Pause primitive runs for the position pos: a Pause whose local time
\* has been reached is scheduled, or the timer of a scheduled Pause fires.
ExecutesPause(pos) ==
  \/ /\ SchedulesLater
     /\ lastCommand'.Command = "Pause"
     /\ WhenLocal(lastCommand') <= now
     /\ pos = lastCommand'.PositionTicks
  \/ \E t \in timers : t.kind = "pause" /\ t.pos = pos /\ CommandTimerFires(t)

PauseWaiters == SelectSeq(waiters, LAMBDA w : w.event = "pause")

SeekTo(w) == Call("localSeek", w.pos)

RECURSIVE SeekEach(_)
SeekEach(ws) == IF ws = <<>> THEN <<>> ELSE <<SeekTo(Head(ws))>> \o SeekEach(Tail(ws))

\* C25: the Pause primitive pauses the player without seeking and waits for 'pause' for
\* WaitForPlayerEventTimeout ms; the seek to PositionTicks is made once, by the 'pause'
\* event when it comes within the wait and by the timeout otherwise, and a 'pause' event
\* that finds no wait pending seeks nothing.
C25_PauseSeeksOnce ==
  /\ [][\A pos \in {P0} :
          ExecutesPause(pos) /\ isPlayerActive =>
            /\ paused'
            /\ SeeksOf(effects') = <<>>
            /\ SelectSeq(Calls(effects'), LAMBDA c : c.call \in LocalPrimitives)
                 = <<Call("localPause", 0)>>
            /\ waiters' = Append(waiters, [event |-> "pause", then |-> "pauseSeek", pos |-> pos,
                                           due |-> now + WaitForPlayerEventTimeout])]_vars
  /\ [][PlayerPause =>
          /\ Calls(effects') = SeekEach(PauseWaiters)
          /\ \A i \in 1..Len(PauseWaiters) : now <= PauseWaiters[i].due
          /\ PauseWaiters' = <<>>]_vars
  /\ [][\A i \in 1..Len(waiters) :
          waiters[i].event = "pause" /\ WaiterTimeout(i) /\ isPlayerActive =>
            /\ now = waiters[i].due
            /\ Calls(effects') = <<SeekTo(waiters[i])>>
            /\ Len(PauseWaiters') = Len(PauseWaiters) - 1]_vars
  /\ [][Len(PauseWaiters') > Len(PauseWaiters) => ExecutesPause(P0)]_vars

\* The Pause primitive has just run: the player is paused, no seek was made yet and the wait
\* for 'pause' ends WaitForPlayerEventTimeout ms from now.
C25_Witness ==
  /\ lastCommand.Command = "Pause"
  /\ paused
  /\ Called(effects, "localPause")
  /\ SeeksOf(effects) = <<>>
  /\ \E i \in 1..Len(waiters) :
       /\ waiters[i].then = "pauseSeek"
       /\ waiters[i].pos = lastCommand.PositionTicks
       /\ waiters[i].due = now + WaitForPlayerEventTimeout


\* A step in which the Seek primitive runs: a Seek whose local time has been reached is
\* scheduled, or the timer of a scheduled Seek fires.
ExecutesSeek ==
  \/ /\ SchedulesLater
     /\ lastCommand'.Command = "Seek"
     /\ WhenLocal(lastCommand') <= now
  \/ \E t \in timers : t.kind = "seek" /\ CommandTimerFires(t)

\* The targets of the Seek primitive: PositionTicks, moved by the jitter of a forced seek.
SeekTargets == {P0 + j * TicksPerMillisecond : j \in RandomOffsets}

SeekWaiters == SelectSeq(waiters, LAMBDA w : w.then = "readyPause")

PlayerCalls(log) ==
  SelectSeq(log, LAMBDA c : c.call \in LocalPrimitives \cup {"requestSyncPlayBuffering"})

RECURSIVE PauseAndReportEach(_)
PauseAndReportEach(ws) ==
  IF ws = <<>> THEN <<>>
  ELSE <<Call("localPause", 0), Call("requestSyncPlayBuffering", 1)>>
         \o PauseAndReportEach(Tail(ws))

\* C26: the Seek primitive unpauses, seeks to its target and waits for 'ready' for
\* WaitForEventDefaultTimeout ms; a 'ready' event within the wait pauses the player and
\* reports buffering done, and the timeout seeks to the same target again, without pause
\* and without report.
C26_SeekWaitsForReady ==
  /\ [][ExecutesSeek /\ isPlayerActive =>
          \E pos \in SeekTargets :
            /\ \A t \in timers : t.kind = "seek" /\ CommandTimerFires(t) => pos = t.pos
            /\ PlayerCalls(effects') = <<Call("localUnpause", 0), Call("localSeek", pos)>>
            /\ ~paused'
            /\ playerTicks' = pos
            /\ waiters' = Append(waiters, [event |-> "ready", then |-> "readyPause", pos |-> pos,
                                           due |-> now + WaitForEventDefaultTimeout])]_vars
  /\ [][PlayerPlaying /\ (\A i \in 1..Len(waiters) : waiters[i].event = "ready" => waiters[i].then = "readyPause") =>
          /\ PlayerCalls(effects') =
               <<Call("requestSyncPlayBuffering", 1)>> \o PauseAndReportEach(SeekWaiters)
          /\ \A i \in 1..Len(SeekWaiters) : now <= SeekWaiters[i].due
          /\ SeekWaiters # <<>> => paused'
          /\ SeekWaiters' = <<>>]_vars
  /\ [][\A i \in 1..Len(waiters) :
          waiters[i].then = "readyPause" /\ WaiterTimeout(i) /\ isPlayerActive =>
            /\ now = waiters[i].due
            /\ Calls(effects') = <<SeekTo(waiters[i])>>
            /\ paused' = paused
            /\ Len(SeekWaiters') = Len(SeekWaiters) - 1]_vars
  /\ [][Len(SeekWaiters') > Len(SeekWaiters) => ExecutesSeek]_vars

\* The 'ready' event has just ended the wait of a Seek: the player was paused at the target
\* and buffering done was reported.
C26_Witness ==
  /\ lastCommand.Command = "Seek"
  /\ SeekWaiters = <<>>
  /\ paused
  /\ playerTicks = lastCommand.PositionTicks
  /\ PlayerCalls(effects) = <<Call("requestSyncPlayBuffering", 1), Call("localPause", 0),
                              Call("requestSyncPlayBuffering", 1)>>


(***************************************************************************)
(* Properties of the choice and the course of a correction.                *)
(***************************************************************************)
\* Drift correction runs on the next time update: a player is active and not buffering,
\* the last command is Unpause, correction is enabled and the rate limit has passed.
CorrectionRuns ==
  /\ isPlayerActive
  /\ lastCommand.Command = "Unpause"
  /\ ~playerIsBuffering
  /\ syncEnabled
  /\ enableSyncCorrection
  /\ now - lastSyncTime >= maxDelaySpeedToSync \div 2

\* The delay to recover, in milliseconds, with the player at positionTicks.
Delta(positionTicks) == (ServerPosition(lastCommand) - positionTicks) \div TicksPerMillisecond

RateChosen(delta) ==
  /\ hasPlaybackRate
  /\ useSpeedToSync
  /\ minDelaySpeedToSync <= Abs(delta)
  /\ Abs(delta) < maxDelaySpeedToSync

SeekChosen(delta) == ~RateChosen(delta) /\ useSkipToSync /\ Abs(delta) >= minDelaySkipToSync

\* C27: when drift correction runs, the rate is set exactly when the player supports it,
\* useSpeedToSync is set and minDelaySpeedToSync <= |delta| < maxDelaySpeedToSync;
\* otherwise the player is sent to the expected position exactly when useSkipToSync is set
\* and |delta| >= minDelaySkipToSync; otherwise nothing is done to the player and
\* syncAttempts is 0.
C27_StrategyByDelta ==
  [][\A positionTicks \in NudgePositions :
       CorrectionRuns /\ TimeUpdate(positionTicks) =>
         LET delta == Delta(positionTicks)
         IN  /\ Called(effects', "setPlaybackRate") <=> RateChosen(delta)
             /\ SeeksOf(effects') = IF SeekChosen(delta)
                                      THEN <<Call("localSeek", ServerPosition(lastCommand))>>
                                      ELSE <<>>
             /\ ~RateChosen(delta) /\ ~SeekChosen(delta) =>
                  /\ Calls(effects') = <<>>
                  /\ syncAttempts' = 0
                  /\ playbackRate' = playbackRate
                  /\ playerTicks' = positionTicks
                  /\ timers' = timers
                  /\ syncEnabled']_vars

\* With both strategies switched on the player has just been sent to the expected
\* position: it was maxDelaySpeedToSync or more away.
C27_Witness ==
  /\ useSpeedToSync
  /\ useSkipToSync
  /\ lastCommand.Command = "Unpause"
  /\ SeeksOf(effects) = <<Call("localSeek", ServerPosition(lastCommand))>>
  /\ ~Rescheduled(effects)
  /\ syncAttempts = 1
  /\ ~syncEnabled


\* Settings of speedToSyncDuration, in milliseconds, and the delays of a rate correction.
Durations == {1, 4, 5, 250, 999, 1000, 1001, 4000}

RateDeltas == {d \in (1 - maxDelaySpeedToSync)..(maxDelaySpeedToSync - 1) :
                 Abs(d) >= minDelaySpeedToSync}

\* 1 + delta / T in thousandths, T being the duration, or |delta| / (1 - 0.2) when
\* delta <= -0.2 * duration.
ExpectedSpeed(delta, duration) ==
  IF 5 * delta <= 0 - duration THEN 1000 - (1000 - MinSpeedPerMille)
  ELSE 1000 + ((1000 * delta) \div duration)

SpeedWithinBounds ==
  \A duration \in Durations : \A delta \in RateDeltas :
    /\ Speed(delta, duration) = ExpectedSpeed(delta, duration)
    /\ Speed(delta, duration) >= MinSpeedPerMille
    /\ Speed(delta, duration) > 0

ExpectedDuration(delta) ==
  IF 5 * delta <= 0 - speedToSyncDuration
    THEN (Abs(delta) * 1000) \div (1000 - MinSpeedPerMille)
    ELSE speedToSyncDuration

RestoreTimers == {t \in timers : t.kind = "rateRestore" /\ t.held}

\* C29: a correction sets syncEnabled to false and leaves exactly one sync timer armed, due
\* after the duration of a rate correction or after maxDelaySpeedToSync / 2 ms for a seek;
\* when the timer fires the rate is 1.0 and syncEnabled is true. While the rate is not 1.0
\* syncEnabled is false and the restoring timer is armed, and the rate returns to 1.0.
C29_NudgeRestores ==
  /\ [][\A positionTicks \in NudgePositions :
          LET delta == Delta(positionTicks)
          IN  /\ CorrectionRuns
              /\ TimeUpdate(positionTicks)
              /\ RateChosen(delta) \/ SeekChosen(delta)
              => /\ ~syncEnabled'
                 /\ syncAttempts' = syncAttempts + 1
                 /\ Len(SelectSeq(effects', LAMBDA c : c.call = "setTimeout")) = 1
                 /\ \E t \in timers' :
                      /\ SyncTimers' = {t}
                      /\ t.held
                      /\ t.kind = IF RateChosen(delta) THEN "rateRestore" ELSE "syncGuard"
                      /\ t.due = now + IF RateChosen(delta) THEN ExpectedDuration(delta)
                                       ELSE maxDelaySpeedToSync \div 2]_vars
  /\ [][\A t \in SyncTimers :
          SyncTimerFires(t) => now = t.due /\ playbackRate' = 1000 /\ syncEnabled']_vars
  /\ [](playbackRate # 1000 => ~syncEnabled /\ RestoreTimers # {})
  /\ (playbackRate # 1000 ~> playbackRate = 1000)

\* The timer of a rate correction has just fired: the rate is 1.0 again and correction is
\* enabled.
C29_Witness ==
  /\ Calls(effects) = <<Call("setPlaybackRate", 1000)>>
  /\ playbackRate = 1000
  /\ syncEnabled
  /\ syncAttempts = 1
  /\ SyncTimers = {}
  /\ lastCommand.Command = "Unpause"


\* C30: a time update that finds no active player, a last command other than Unpause (a
\* Pause, Seek or Stop, or none after playback stopped) or a buffering player sets no rate,
\* seeks nowhere, arms no timer and leaves the state of the correction as it is.
C30_NoNudgeUnlessPlaying ==
  [][\A positionTicks \in PlayerPositions :
       (/\ TimeUpdate(positionTicks)
        /\ ~(isPlayerActive /\ lastCommand.Command = "Unpause" /\ ~playerIsBuffering)) =>
         /\ Calls(effects') = <<>>
         /\ playbackRate' = playbackRate
         /\ playerTicks' = positionTicks
         /\ UNCHANGED <<timers, syncEnabled, syncAttempts, lastSyncTime, paused>>]_vars

\* A time update has just found the player buffering, half a second ahead of the command's
\* position, with correction enabled and the rate limit passed.
C30_Witness ==
  /\ playerIsBuffering
  /\ lastCommand.Command = "Unpause"
  /\ isPlayerActive
  /\ syncEnabled
  /\ enableSyncCorrection
  /\ now - lastSyncTime >= maxDelaySpeedToSync \div 2
  /\ playerTicks = lastCommand.PositionTicks + 500 * TicksPerMillisecond
  /\ effects = <<>>


(***************************************************************************)
(* Properties of concurrent play queue updates.                            *)
(***************************************************************************)
\* The queue view onPlayQueueUpdate stores for the update u.
ViewOf(u) ==
  <<u.Playlist, u.Playlist, u.Reason, u.LastUpdate, u.PlayingItemIndex, u.StartPositionTicks,
    u.ShuffleMode, u.RepeatMode>>

\* C31: with item lookups pending and completing in any order the stored lastUpdate never
\* decreases; every update received is pending or not newer than the stored one, a lookup
\* that completes leaves the view of its update or of a later one, and the view only changes
\* to that of a received update newer than the stored one: when no lookup is pending the
\* view is that of the update with the greatest LastUpdate received.
C31_LatestUpdateWins ==
  /\ [][lastUpdate' >= lastUpdate]_vars
  /\ [][\A u \in QueueUpdates :
          UpdatePlayQueue(u) => u \in pendingLookups' \/ lastUpdate' >= u.LastUpdate]_vars
  /\ [][\A u \in pendingLookups :
          LookupComplete(u) =>
            /\ lastUpdate' >= u.LastUpdate
            /\ u.LastUpdate > lastUpdate => QueueView' = ViewOf(u)
            /\ u.LastUpdate <= lastUpdate => QueueView' = QueueView]_vars
  /\ [][QueueView' # QueueView =>
          \E u \in QueueUpdates :
            /\ u.LastUpdate > lastUpdate
            /\ QueueView' = ViewOf(u)
            /\ u \in pendingLookups \/ u.Playlist = <<>>]_vars

\* Two lookups were pending; the later update was stored first and the earlier one,
\* completing last, was rejected.
C31_Witness ==
  /\ pendingLookups = {}
  /\ playlist # <<>>
  /\ \E i \in 1..Len(effects) :
        /\ effects[i].call = "console.warn: updatePlayQueue"
        /\ effects[i].arg < lastUpdate


(***************************************************************************)
(* Properties of following the group's playback.                           *)
(***************************************************************************)
FollowRequested(log) ==
  \E i \in 1..Len(log) : log[i] = Call("requestSyncPlaySetIgnoreWait", 0)

NewPlaylistApplied == lastUpdate' # lastUpdate /\ reason' = "NewPlaylist"

\* C33: a 'NewPlaylist' update applied while not following first sends the follow request
\* (IgnoreWait = false) and starts no playback in that step; local playback is started by
\* the completion of a follow request or by an update applied while already following, and
\* in the latter case no follow request is sent.
C33_FollowBeforePlay ==
  /\ [][NewPlaylistApplied /\ ~followingGroupPlayback =>
          /\ FollowRequested(effects')
          /\ ~Called(effects', "localPlay")
          /\ followingGroupPlayback'
          /\ pendingFollows' = pendingFollows \cup {lastUpdate'}
          /\ lastUpdate' \notin pendingFollows]_vars
  /\ [][NewPlaylistApplied /\ followingGroupPlayback =>
          /\ ~FollowRequested(effects')
          /\ playlist' # <<>> => Called(effects', "localPlay")
          /\ UNCHANGED pendingFollows]_vars
  /\ [][Called(effects', "localPlay") =>
          \/ /\ \E t \in pendingFollows : pendingFollows' = pendingFollows \ {t}
             /\ UNCHANGED QueueView
          \/ /\ NewPlaylistApplied /\ followingGroupPlayback
             /\ ~FollowRequested(effects')]_vars

\* The follow request of a stored 'NewPlaylist' update is in flight and nothing plays yet.
C33_Witness ==
  /\ pendingFollows = {lastUpdate}
  /\ reason = "NewPlaylist"
  /\ playlist # <<>>
  /\ FollowRequested(effects)
  /\ ~Called(effects, "localPlay")


ReasonActions ==
  {"localPlay", "localSetCurrentPlaylistItem", "playlistitemadd", "localSetRepeatMode",
   "localSetQueueShuffleMode"}

ReasonAction(log) == \E i \in 1..Len(log) : log[i].call \in ReasonActions

\* C32: the reason-specific local action of a play queue update is performed only in the
\* step that stores the update in the queue view, or later while the update is still the
\* latest stored one; a rejected or superseded update triggers no local action.
C32_ActionOnlyForLatest ==
  [][ReasonAction(effects') =>
       \/ lastUpdate' # lastUpdate
       \/ \E t \in pendingFollows :
            /\ pendingFollows' = pendingFollows \ {t}
            /\ t = lastUpdate]_vars

\* The part of C32 about the step that handles an update: an action in that step means the
\* update was stored by it.
C32_ActionInStoringStep ==
  [][ReasonAction(effects') /\ UNCHANGED pendingFollows => lastUpdate' # lastUpdate]_vars

\* Playback was started by the follow request of an update that another one has superseded.
C32_SupersededStarts ==
  /\ Called(effects, "localPlay")
  /\ reason = "SetCurrentItem"
  /\ pendingFollows = {}


(***************************************************************************)
(* Properties of the updates of the server clock.                          *)
(***************************************************************************)
Sends(log) == Cardinality({i \in 1..Len(log) : log[i].call = "dataChannel.send"})

FailedServerUpdate == Called(effects', "console.debug: time sync with server issue")

ServerUpdated == Called(effects', "broadcastMessage")

C34_FailedUpdateIsSilent ==
  [][FailedServerUpdate =>
       /\ ~ServerUpdated
       /\ Sends(effects') = 0
       /\ UNCHANGED <<tsVars, readyWaiters, syncPlayReady>>]_vars

\* A successful update whose broadcast ended at the first of two connected peers, while
\* enableSyncPlay waits for 'time-sync-server-update'.
C34_BroadcastThrows ==
  /\ Len(rtcPeerIds) = 2
  /\ Len(effects) = 2
  /\ effects[1].call = "broadcastMessage"
  /\ effects[2].call = "InvalidStateError"
  /\ readyWaiters > 0
  /\ ~syncPlayReady


(***************************************************************************)
(* Properties of the frames of peers.                                      *)
(***************************************************************************)
\* A frame without data, or without a number in timeOffset or in ping.
Malformed(data) ==
  \/ ~data.present
  \/ data.timeOffset \in {Null, Undefined}
  \/ data.ping \in {Null, Undefined}

\* C35: a 'time-sync-server-update' frame of a peer that has no data, or lacks timeOffset or
\* ping, is dropped: the peer's peerTimeOffset and peerPing, and so the effective offset
\* through that peer, stay as they are.
C35_MalformedFrameDropped ==
  [][\A peerId \in PeerIds, data \in Frames :
       Malformed(data) /\ PeerServerUpdate(peerId, data) =>
         /\ UNCHANGED tsPeers
         /\ getTimeOffset(serverOffset, peerId)' = getTimeOffset(serverOffset, peerId)]_vars

\* The part of C35 about frames without data or with null in a field.
C35_NullFrameDropped ==
  [][\A peerId \in PeerIds, data \in Frames :
       InvalidServerUpdate(data) /\ PeerServerUpdate(peerId, data) =>
         /\ Called(effects', "console.error: invalid time-sync-server-update")
            \/ ~tsPeers[peerId].present
         /\ UNCHANGED tsPeers]_vars

\* The offset of the active peer to the server is undefined after a frame without timeOffset.
C35_UndefinedStored ==
  /\ HasPeer(activePeerId)
  /\ tsPeers[activePeerId].peerTimeOffset = Undefined
  /\ tsPeers[activePeerId].peerPing = 20


(***************************************************************************)
(* Properties of the registry of peer sources.                             *)
(***************************************************************************)
Ids(seq) == {seq[i] : i \in 1..Len(seq)}

NoDuplicates(seq) == Cardinality(Ids(seq)) = Len(seq)

BufferingTimers == {t \in timers : t.kind \in BufferingTimerKinds}

BufferingReported(log) ==
  \E i \in 1..Len(log) : log[i] = Call("requestSyncPlayBuffering", 0)

\* C37: buffering is reported only by the debounce timer that 'waiting' armed 3000 ms
\* earlier and that no 'playing' or 'waiting' has cancelled since: at most one debounce
\* timer is armed, 'waiting' replaces it by one due 3000 ms later and reports nothing,
\* 'playing' cancels it and reports nothing, and a report is the firing of that timer.
C37_BufferingDebounced ==
  /\ [](/\ Cardinality(BufferingTimers) <= 1
        /\ \A t \in BufferingTimers : t.held /\ t.due <= now + minBufferingThresholdMillis)
  /\ [][PlayerWaiting =>
          /\ BufferingTimers' =
               {Timer("notifyBuffering", now + minBufferingThresholdMillis, NullTicks)}
          /\ ~BufferingReported(effects')
          /\ UNCHANGED playerIsBuffering]_vars
  /\ [][PlayerPlaying =>
          /\ BufferingTimers' = {}
          /\ ~BufferingReported(effects')
          /\ ~playerIsBuffering']_vars
  /\ [][BufferingReported(effects') \/ (~playerIsBuffering /\ playerIsBuffering') =>
          /\ \E t \in BufferingTimers : t.due <= now
          /\ BufferingTimers' = {}
          /\ playerIsBuffering'
          /\ now' = now]_vars

\* The debounce timer armed by a 'waiting' at TickMs has fired 3000 ms later.
C37_Witness ==
  /\ playerIsBuffering
  /\ BufferingReported(effects)
  /\ now = TickMs + minBufferingThresholdMillis


(***************************************************************************)
(* Properties of the deferred follow-up actions of commands.               *)
(***************************************************************************)
\* The continuation a command of each kind leaves behind.
FollowUpOf(kind) ==
  CASE kind = "Unpause" -> "seek"
    [] kind = "Pause" -> "pauseSeek"
    [] kind = "Seek" -> "readyPause"
    [] OTHER -> "none"

CommandFollowUps == {"seek", "pauseSeek", "readyPause"}

\* The follow-up of a command of another kind than the one that was applied last.
Superseded(w) ==
  /\ lastCommand # NoCommand
  /\ w.then \in CommandFollowUps
  /\ w.then # FollowUpOf(lastCommand.Command)

Primitives(log) == Cardinality({i \in 1..Len(log) : log[i].call \in LocalPrimitives})

\* The waits of an event whose command is still the last one applied.
CurrentWaits(event) ==
  {i \in 1..Len(waiters) : waiters[i].event = event /\ ~Superseded(waiters[i])}

\* C38: once a later command has been applied, the follow-up of an earlier command makes no
\* call on the player, neither when its event comes nor when its wait times out: a player
\* event makes at most one call for each wait of the command applied last.
C38_NoStaleFollowUp ==
  /\ [][PlayerUnpause => Primitives(effects') <= Cardinality(CurrentWaits("unpause"))]_vars
  /\ [][PlayerPause => Primitives(effects') <= Cardinality(CurrentWaits("pause"))]_vars
  /\ [][PlayerPlaying => Primitives(effects') <= Cardinality(CurrentWaits("ready"))]_vars
  /\ [][\A i \in 1..Len(waiters) :
          WaiterTimeout(i) /\ Superseded(waiters[i]) => Primitives(effects') = 0]_vars

\* The player was paused by the 'ready' wait of a Seek after an Unpause had been applied.
C38_StalePause ==
  /\ lastCommand.Command = "Unpause"
  /\ paused
  /\ Called(effects, "clearTimeout(notifyBuffering)")
  /\ Called(effects, "localPause")


(***************************************************************************)
(* Properties of the ready flag.                                           *)
(***************************************************************************)
\* C39: syncPlayReady is true only while SyncPlay is enabled: an update of the server clock
\* that comes after disableSyncPlay, for an enableSyncPlay whose wait is still pending,
\* does not set it.
C39_ReadyOnlyWhileEnabled ==
  /\ [](syncPlayReady => isSyncPlayEnabled)
  /\ [][~isSyncPlayEnabled => ~syncPlayReady']_vars

\* The part of C39 about disableSyncPlay itself: it leaves the session not ready.
C39_DisableClearsReady ==
  [][isSyncPlayEnabled /\ syncPlayEnabledAt' = NullTime => ~syncPlayReady']_vars

\* An update of the server clock has just made a disabled session ready.
C39_ReadyWhileDisabled ==
  /\ syncPlayReady
  /\ ~isSyncPlayEnabled
  /\ readyWaiters = 0
  /\ Called(effects, "broadcastMessage")


(***************************************************************************)
(* Properties of the answers to ping requests.                             *)
(***************************************************************************)
\* C40: a 'ping-response' resolves the pending ping request only if its requestSent is that
\* of the pending request; the response to an earlier request resolves nothing.
C40_ResponseMatchesRequest ==
  [][\A p \in PeerIds, requestSent \in RequestTimes, sample \in PeerOffsets :
       (/\ PendingPing(p)
        /\ requestSent # tsPeers[p].requestSent
        /\ PingResponseTo(p, requestSent, sample)) =>
         /\ ~Called(effects', "resolvePingRequest")
         /\ UNCHANGED tsPeers]_vars

\* The part of C40 about the response that echoes the pending request: it resolves it.
C40_MatchingResponseResolves ==
  [][\A p \in PeerIds, sample \in PeerOffsets :
       PendingPing(p) /\ PingResponseTo(p, tsPeers[p].requestSent, sample) =>
         /\ effects'[1] = Call("resolvePingRequest", sample)
         /\ ~PendingPing(p)']_vars

\* A request sent at TickMs is pending while the answer to the request sent at 0, which a
\* disconnect cancelled, has not arrived.
C40_SecondRequestPending ==
  \E p \in PeerIds :
    /\ PendingPing(p)
    /\ 0 \in pingRequests[p]
    /\ tsPeers[p].requestSent = TickMs
    /\ now = TickMs

====
